---- MODULE Spec2Model ----
\* A model of cvrminer's record reader (cvrfile.CvrFile), field extractor
\* (virksomhed.Virksomhed) and tabular writer
\* (CvrFile.write_virksomhed_features_file).
EXTENDS Integers, Sequences, FiniteSets, TLC

VARIABLES
    data,         \* Virksomhed.data: the raw record an accessor is called on
    called,       \* the Virksomhed operation that has been called ("none" before)
    result,       \* what the call returned or raised
    lines,        \* the text lines of the NDJSON input file
    fid,          \* CvrFile.fid: the read handle (open flag, lines consumed)
    line_number,  \* CvrFile.line_number
    pc,           \* position of the loop that drives the reader
    yielded,      \* the objects CvrFile.__next__ has returned so far, in order
    error,        \* the exception that ended the loop (NoError while running)
    header,       \* write_virksomhed_features_file's local `header`
    csvfile,      \* rows written through csv_writer, in order
    companies,    \* the documents CvrMongo.iter_companies yields, in order
    folded,       \* how many of them the census loop has consumed
    counts,       \* count_all_company_field_names' accumulator `counts`
    stop_words,   \* PurposeProcessor.stop_words, as read from the data file
    purpose,      \* the purpose text handed to PurposeProcessor.clean
    db,           \* CvrMongo.db.companies: the stored documents, in insertion order
    archive,      \* the lines of the Google Place archive file, in order
    place_id_index,  \* GooglePlaceArchive.place_id_index
    last_line,    \* GooglePlaceArchive.last_line
    place_ids     \* search_and_save's local `place_ids`, the last search result

\* The state of the company store and of the Google Place archive.
storeVars == <<db, archive, place_id_index, last_line, place_ids>>

\* The state outside cvrfile and virksomhed: the field census, the text
\* cleaner, the store and the archive.
otherVars == <<companies, folded, counts, stop_words, purpose, storeVars>>

vars ==
    <<data, called, result, lines, fid, line_number, pc, yielded, error, header,
      csvfile, otherVars>>

-----------------------------------------------------------------------------
\* Python values. Strings are sequences of one-character strings.

Null == [t |-> "null"]
JInt(i) == [t |-> "int", i |-> i]
JStr(s) == [t |-> "str", s |-> s]
JBool(b) == [t |-> "bool", b |-> b]
Dict(d) == [t |-> "dict", d |-> d]
NaN == [t |-> "nan"]
List(l) == [t |-> "list", l |-> l]
\* A float, by its repr, and a bson ObjectId (Mongo's own _id).
JFloat(r) == [t |-> "float", r |-> r]
ObjectId == [t |-> "objectid"]

\* The outcome of evaluating an expression: a value, or a raised exception.
Ok(v) == [t |-> "ok", v |-> v]
KeyError(k) == [t |-> "raise", e |-> "KeyError", key |-> k]
TypeError == [t |-> "raise", e |-> "TypeError"]
IndexError == [t |-> "raise", e |-> "IndexError"]
AssertionError == [t |-> "raise", e |-> "AssertionError"]
ValueError == [t |-> "raise", e |-> "ValueError"]

\* A key a dict literal leaves out; Strip removes it from the domain.
Absent == [t |-> "absent"]
Strip(f) == [k \in {j \in DOMAIN f : f[j] # Absent} |-> f[k]]
MkDict(f) == Dict(Strip(f))

\* obj[key] for a string key: only a dict holding the key resolves.
getitem(obj, key) ==
    IF obj.t = "dict"
    THEN IF key \in DOMAIN obj.d THEN Ok(obj.d[key]) ELSE KeyError(key)
    ELSE TypeError

\* obj[k1][k2]...: the first failing step raises.
RECURSIVE Path(_, _)
Path(obj, keys) ==
    IF keys = <<>> THEN Ok(obj)
    ELSE LET r == getitem(obj, Head(keys))
         IN IF r.t = "raise" THEN r ELSE Path(r.v, Tail(keys))

\* try: <r> except Exception: <default>
TryExcept(r, default) == IF r.t = "raise" THEN Ok(default) ELSE r

Digits == {"0", "1", "2", "3", "4", "5", "6", "7", "8", "9"}

DigitVal(c) ==
    CASE c = "0" -> 0 [] c = "1" -> 1 [] c = "2" -> 2 [] c = "3" -> 3
      [] c = "4" -> 4 [] c = "5" -> 5 [] c = "6" -> 6 [] c = "7" -> 7
      [] c = "8" -> 8 [] c = "9" -> 9

DigitChar(n) ==
    CASE n = 0 -> "0" [] n = 1 -> "1" [] n = 2 -> "2" [] n = 3 -> "3"
      [] n = 4 -> "4" [] n = 5 -> "5" [] n = 6 -> "6" [] n = 7 -> "7"
      [] n = 8 -> "8" [] n = 9 -> "9"

\* The value of a non-empty string of decimal digits.
RECURSIVE DecVal(_)
DecVal(s) ==
    IF s = <<>> THEN 0
    ELSE 10 * DecVal(SubSeq(s, 1, Len(s) - 1)) + DigitVal(s[Len(s)])

\* str.strip() of spaces.
RECURSIVE py_strip(_)
py_strip(s) ==
    IF s = <<>> THEN s
    ELSE IF Head(s) = " " THEN py_strip(Tail(s))
    ELSE IF s[Len(s)] = " " THEN py_strip(SubSeq(s, 1, Len(s) - 1))
    ELSE s

\* int(s) for a string: surrounding blanks and one sign are accepted, then
\* only digits (digit-group underscores are not modelled).
py_int(s) ==
    LET u == py_strip(s)
        signed == u # <<>> /\ Head(u) \in {"+", "-"}
        body == IF signed THEN Tail(u) ELSE u
    IN IF body = <<>> \/ \E i \in 1..Len(body) : body[i] \notin Digits
       THEN ValueError
       ELSE Ok(JInt(IF signed /\ Head(u) = "-" THEN 0 - DecVal(body) ELSE DecVal(body)))

\* The decimal digits of a natural number.
RECURSIVE NatChars(_)
NatChars(n) ==
    IF n < 10 THEN <<DigitChar(n)>>
    ELSE NatChars(n \div 10) \o <<DigitChar(n % 10)>>

\* str(value) for None, integers, booleans and strings.
py_str(v) ==
    CASE v.t = "null" -> JStr(<<"N", "o", "n", "e">>)
      [] v.t = "int" -> JStr(IF v.i < 0 THEN <<"-">> \o NatChars(0 - v.i) ELSE NatChars(v.i))
      [] v.t = "bool" -> JStr(IF v.b THEN <<"T", "r", "u", "e">> ELSE <<"F", "a", "l", "s", "e">>)
      [] v.t = "str" -> v

\* The length of the run of digits that starts s.
RECURSIVE DigitRun(_)
DigitRun(s) ==
    IF s = <<>> \/ Head(s) \notin Digits THEN 0 ELSE 1 + DigitRun(Tail(s))

\* One-character runs, as the pattern \d would give.
RECURSIVE findall_digit(_)
findall_digit(s) ==
    IF s = <<>> THEN <<>>
    ELSE IF Head(s) \in Digits THEN <<<<Head(s)>>>> \o findall_digit(Tail(s))
    ELSE findall_digit(Tail(s))

\* re.findall(r'\d+', s): the maximal runs of digits of s, left to right.
RECURSIVE findall_digits(_)
findall_digits(s) ==
    IF s = <<>> THEN <<>>
    ELSE IF Head(s) \notin Digits THEN findall_digits(Tail(s))
    ELSE LET n == DigitRun(s)
         IN <<SubSeq(s, 1, n)>> \o findall_digits(SubSeq(s, n + 1, Len(s)))

-----------------------------------------------------------------------------
\* virksomhed.Virksomhed: the accessors, each a function of self.data.

antal_penheder(d) == Path(d, <<"virksomhedMetadata", "antalPenheder">>)

branche_ansvarskode(d) ==
    LET value == getitem(d, "brancheAnsvarskode")
    IN IF value.t = "raise" THEN value ELSE Ok(py_str(value.v))

cvr_nummer(d) == getitem(d, "cvrNummer")

nyeste_antal_ansatte(d) ==
    LET value == Path(d, <<"virksomhedMetadata", "nyesteAarsbeskaeftigelse",
                           "intervalKodeAntalAnsatte">>)
        numbers == findall_digits(value.v.s)
        body == IF value.t = "raise" THEN value
                ELSE IF value.v.t # "str" THEN TypeError
                ELSE IF numbers = <<>> THEN IndexError
                ELSE py_int(numbers[1])
    IN TryExcept(body, NaN)

nyeste_virksomhedsform(d) ==
    TryExcept(Path(d, <<"virksomhedMetadata", "nyesteVirksomhedsform",
                        "langBeskrivelse">>), NaN)

\* nyeste_statuskode without the str() coercion.
nyeste_statuskode_uncoerced(d) ==
    TryExcept(Path(d, <<"virksomhedMetadata", "nyesteStatus", "statuskode">>),
              JStr(<<"N", "o", "n", "e">>))

nyeste_statuskode(d) ==
    LET statuskode == Path(d, <<"virksomhedMetadata", "nyesteStatus", "statuskode">>)
        body == IF statuskode.t = "raise" THEN statuskode
                ELSE Ok(py_str(statuskode.v))
    IN TryExcept(body, JStr(<<"N", "o", "n", "e">>))

reklamebeskyttet(d) == getitem(d, "reklamebeskyttet")

sammensat_status(d) == Path(d, <<"virksomhedMetadata", "sammensatStatus">>)

stiftelsesdato(d) == Path(d, <<"virksomhedMetadata", "stiftelsesDato">>)

\* date[:4] then int(): only a string can be sliced and parsed.
int_of_first4(date) ==
    IF date.t # "str" THEN TypeError
    ELSE py_int(SubSeq(date.s, 1, IF Len(date.s) < 4 THEN Len(date.s) ELSE 4))

stiftelsesaar(d) ==
    LET date == stiftelsesdato(d)
    IN IF date.t = "raise" THEN date
       ELSE TryExcept(int_of_first4(date.v), NaN)

nyeste_hovedbranche_branchekode(d) ==
    TryExcept(Path(d, <<"virksomhedMetadata", "nyesteHovedbranche", "branchekode">>),
              Null)

nyeste_hovedbranche_branchetekst(d) ==
    TryExcept(Path(d, <<"virksomhedMetadata", "nyesteHovedbranche", "branchetekst">>),
              Null)

\* len(obj): lists, dicts and strings have a length.
py_len(obj) ==
    CASE obj.t = "list" -> Ok(Len(obj.l))
      [] obj.t = "dict" -> Ok(Cardinality(DOMAIN obj.d))
      [] obj.t = "str" -> Ok(Len(obj.s))
      [] OTHER -> TypeError

\* obj[-1] for an object of non-zero length.
last_item(obj) ==
    CASE obj.t = "list" -> Ok(obj.l[Len(obj.l)])
      [] obj.t = "str" -> Ok(JStr(<<obj.s[Len(obj.s)]>>))
      [] obj.t = "dict" -> KeyError("-1")
      [] OTHER -> TypeError

sidste_virksomhedsstatus(d) ==
    LET virksomhedsstatus == getitem(d, "virksomhedsstatus")
        length == py_len(virksomhedsstatus.v)
        last == last_item(virksomhedsstatus.v)
    IN IF virksomhedsstatus.t = "raise" THEN virksomhedsstatus
       ELSE IF length.t = "raise" THEN length
       ELSE IF length.v = 0 THEN Ok(JStr(<<>>))
       ELSE IF last.t = "raise" THEN last
       ELSE getitem(last.v, "status")

\* The attribute type tag u('FORM\xc5L').
FORMAAL == JStr(<<"F", "O", "R", "M", "Å", "L">>)

\* for value in values: formaal.append(value['vaerdi'])
RECURSIVE append_vaerdier(_, _)
append_vaerdier(formaal_list, values) ==
    IF values = <<>> THEN Ok(List(formaal_list))
    ELSE LET vaerdi == getitem(Head(values), "vaerdi")
         IN IF vaerdi.t = "raise" THEN vaerdi
            ELSE append_vaerdier(Append(formaal_list, vaerdi.v), Tail(values))

\* for attribute in attributes: the first attribute tagged FORMAAL gives its
\* values and ends the loop.
RECURSIVE formaal_loop(_)
formaal_loop(attributes) ==
    IF attributes = <<>> THEN Ok(List(<<>>))
    ELSE LET type == getitem(Head(attributes), "type")
             values == getitem(Head(attributes), "vaerdier")
         IN IF type.t = "raise" THEN type
            ELSE IF type.v # FORMAAL THEN formaal_loop(Tail(attributes))
            ELSE IF values.t = "raise" THEN values
            ELSE IF values.v.t # "list" THEN TypeError
            ELSE append_vaerdier(<<>>, values.v.l)

\* Virksomhed.formaal; the attribute list is a list or None here (iterating
\* None raises TypeError).
formaal(d) ==
    LET attributter == getitem(d, "attributter")
    IN IF attributter.t = "raise" THEN attributter
       ELSE IF attributter.v.t # "list" THEN TypeError
       ELSE formaal_loop(attributter.v.l)

\* try: <r> except TypeError: <default>
TryExceptTypeError(r, default) ==
    IF r.t = "raise" /\ r.e = "TypeError" THEN Ok(default) ELSE r

nyeste_navn(d) ==
    TryExceptTypeError(Path(d, <<"virksomhedMetadata", "nyesteNavn", "navn">>),
                       JStr(<<>>))

\* collections.Counter over the yielded fields, as the function from each
\* field to the number of times it was yielded.
Occurrences(fields, p) == Cardinality({i \in 1..Len(fields) : fields[i] = p})

\* A tally that records each yielded field once, however often it recurs.
CounterOnce(fields) ==
    [t |-> "counter", c |-> [p \in {fields[i] : i \in 1..Len(fields)} |-> 1]]

Counter(fields) ==
    [t |-> "counter",
     c |-> [p \in {fields[i] : i \in 1..Len(fields)} |-> Occurrences(fields, p)]]

\* field[1:]
slice_from_1(field) == IF field = "" THEN "" ELSE Tail(field)

\* A walk that passes over a leaf of an unhandled type instead of failing.
unhandled_type_skipped == Ok(<<>>)

\* else: assert False
unhandled_type == AssertionError

\* _process_field(field, value): the fields the generator yields, in order,
\* or the exception that ends it.  bool is a subclass of int, so a boolean
\* leaf is an instance of integer_types.
RECURSIVE process_field(_, _)
RECURSIVE process_elements(_, _)
RECURSIVE process_items(_, _, _)

process_field(field, value) ==
    CASE value.t = "list" -> process_elements(field, value.l)
      [] value.t = "dict" -> process_items(field, value.d, DOMAIN value.d)
      [] value.t \in {"int", "bool"} -> Ok(<<field>>)
      [] value.t = "str" -> Ok(<<field>>)
      [] value.t = "null" -> Ok(<<>>)
      [] OTHER -> IF field = "._id" THEN Ok(<<>>) ELSE unhandled_type

\* for element in value: yield from _process_field(field, element)
process_elements(field, elements) ==
    IF elements = <<>> THEN Ok(<<>>)
    ELSE LET first == process_field(field, Head(elements))
             rest == process_elements(field, Tail(elements))
         IN IF first.t = "raise" THEN first
            ELSE IF rest.t = "raise" THEN rest
            ELSE Ok(first.v \o rest.v)

\* for key, dict_value in value.items():
\*     yield from _process_field(field + '.' + key, dict_value)
\* The keys are taken in one fixed order; the tally does not depend on it.
process_items(field, d, keys) ==
    IF keys = {} THEN Ok(<<>>)
    ELSE LET key == CHOOSE k \in keys : TRUE
             first == process_field(field \o "." \o key, d[key])
             rest == process_items(field, d, keys \ {key})
         IN IF first.t = "raise" THEN first
            ELSE IF rest.t = "raise" THEN rest
            ELSE Ok(first.v \o rest.v)

count_fields(d) ==
    LET fields == process_field("", d)
    IN IF fields.t = "raise" THEN fields
       ELSE Ok(Counter([i \in 1..Len(fields.v) |-> slice_from_1(fields.v[i])]))

\* The (name, accessor outcome) pairs in the order features() evaluates them.
feature_items(d) ==
    << <<"cvr_nummer", cvr_nummer(d)>>,
       <<"antal_penheder", antal_penheder(d)>>,
       <<"branche_ansvarskode", branche_ansvarskode(d)>>,
       <<"nyeste_antal_ansatte", nyeste_antal_ansatte(d)>>,
       <<"nyeste_virksomhedsform", nyeste_virksomhedsform(d)>>,
       <<"reklamebeskyttet", reklamebeskyttet(d)>>,
       <<"sammensat_status", sammensat_status(d)>>,
       <<"nyeste_hovedbranche_branchekode", nyeste_hovedbranche_branchekode(d)>>,
       <<"nyeste_hovedbranche_branchetekst", nyeste_hovedbranche_branchetekst(d)>>,
       <<"nyeste_statuskode", nyeste_statuskode(d)>>,
       <<"stiftelsesaar", stiftelsesaar(d)>> >>

\* The items of s whose outcome is not in drop.
RECURSIVE SelectItems(_, _)
SelectItems(s, drop) ==
    IF s = <<>> THEN <<>>
    ELSE IF Head(s)[2] \in drop THEN SelectItems(Tail(s), drop)
    ELSE <<Head(s)>> \o SelectItems(Tail(s), drop)

\* OrderedDict of the items: the first accessor that raises ends the call;
\* otherwise every item is kept, as a (key, value) pair, in order.
OrderedDict(items) ==
    LET raised == {i \in 1..Len(items) : items[i][2].t = "raise"}
        first == CHOOSE i \in raised : \A j \in raised : i <= j
    IN IF raised # {} THEN items[first][2]
       ELSE Ok([i \in 1..Len(items) |-> <<items[i][1], items[i][2].v>>])

\* A features() that leaves out the keys whose value is missing.
features_omit_missing(d) ==
    OrderedDict(SelectItems(feature_items(d), {Ok(NaN), Ok(Null)}))

features(d) == OrderedDict(feature_items(d))

\* Virksomhed.__str__
virksomhed_str(d) ==
    LET cvr == cvr_nummer(d)
    IN IF cvr.t = "raise" THEN cvr ELSE Ok(<<"<Virksomhed(CVR=", cvr.v, ")>">>)

-----------------------------------------------------------------------------
\* The raw records the accessors are exercised on.

MaxCodeLen == 3
MaxDateLen == 5

CodeAlphabet == {"5", "1", "-", "m"}
DateAlphabet == {"1", "9", "-"}

SeqsUpTo(A, n) == UNION {[1..k -> A] : k \in 0..n}

ExampleCode == JStr(<<"5", "1", "-", "1", "0", "0", " ", "m", "e", "d", "a", "r", "b", "e", "j", "d", "e", "r", "e">>)
ExampleDate == JStr(<<"1", "9", "9", "8", "-", "0", "7", "-", "1", "4", "T", "0", "0", ":", "0", "0", ":", "0", "0">>)

Codes == {JStr(s) : s \in SeqsUpTo(CodeAlphabet, MaxCodeLen)} \cup {ExampleCode}
Dates == {JStr(s) : s \in SeqsUpTo(DateAlphabet, MaxDateLen)} \cup {ExampleDate}

Aarsbeskaeftigelse(code) == MkDict([intervalKodeAntalAnsatte |-> code])

Hovedbranche ==
    Dict([branchekode |-> JStr(<<"6", "2">>), branchetekst |-> JStr(<<"I", "T">>)])

\* virksomhedMetadata with every combination of present, null, wrongly typed
\* and missing members.
MetadataShapes ==
    {MkDict(f) : f \in
        [antalPenheder : {Absent, JInt(1)},
         nyesteAarsbeskaeftigelse :
             {Absent, Null, Aarsbeskaeftigelse(Absent), Aarsbeskaeftigelse(Null),
              Aarsbeskaeftigelse(JInt(5)), Aarsbeskaeftigelse(JStr(<<"m">>)),
              Aarsbeskaeftigelse(ExampleCode)},
         nyesteVirksomhedsform :
             {Absent, Dict([langBeskrivelse |-> JStr(<<"A", "/", "S">>)])},
         sammensatStatus : {Absent, JStr(<<"N", "O", "R", "M", "A", "L">>)},
         stiftelsesDato : {Absent, Null, ExampleDate},
         nyesteHovedbranche : {Absent, Hovedbranche},
         nyesteStatus : {Absent, Null, Dict([statuskode |-> JInt(3)])}]}

FullMetadata(code, date) ==
    MkDict([antalPenheder |-> JInt(1),
            nyesteAarsbeskaeftigelse |-> Aarsbeskaeftigelse(code),
            nyesteVirksomhedsform |-> Dict([langBeskrivelse |-> JStr(<<"A", "/", "S">>)]),
            sammensatStatus |-> JStr(<<"N", "O", "R", "M", "A", "L">>),
            stiftelsesDato |-> date,
            nyesteHovedbranche |-> Hovedbranche,
            nyesteStatus |-> Dict([statuskode |-> JInt(3)])])

FullRecord(code, date) ==
    Dict([cvrNummer |-> JInt(1), brancheAnsvarskode |-> Null,
          reklamebeskyttet |-> JBool(FALSE),
          virksomhedMetadata |-> FullMetadata(code, date)])

\* Records of every shape, records with every interval code, and records
\* with every founding date (text, null, a number, or no key at all).
ShapeRecords ==
    {MkDict(f) : f \in
        [cvrNummer : {Absent, JInt(1)},
         brancheAnsvarskode : {Absent, Null, JInt(65)},
         reklamebeskyttet : {Absent, JBool(FALSE)},
         virksomhedMetadata :
             {Absent, Null, JStr(<<"x">>)} \cup MetadataShapes]}

CodeRecords == {FullRecord(code, ExampleDate) : code \in Codes}

DateRecords ==
    {FullRecord(ExampleCode, date) : date \in Dates \cup {Absent, Null, JInt(1998)}}

\* The full record with member k of virksomhedMetadata set to v, and with
\* top-level member k set to v (Absent leaves the member out).
BaseMetadata == FullMetadata(ExampleCode, ExampleDate).d
BaseRecord == FullRecord(ExampleCode, ExampleDate).d

MetadataWith(k, v) ==
    Dict([virksomhedMetadata |->
              MkDict([j \in DOMAIN BaseMetadata \cup {k} |->
                         IF j = k THEN v ELSE BaseMetadata[j]])]
         @@ BaseRecord)

RecordWith(k, v) ==
    MkDict([j \in DOMAIN BaseRecord \cup {k} |-> IF j = k THEN v ELSE BaseRecord[j]])

\* Records with every shape of nyesteStatus.
StatusRecords ==
    {MetadataWith("nyesteStatus", v) : v \in
        {Absent, Null, JInt(3), MkDict([statuskode |-> Absent])}
        \cup {Dict([statuskode |-> c]) : c \in
                 {Null, JInt(0), JInt(3), JInt(10), JBool(TRUE),
                  JStr(<<"A", "K", "T", "I", "V">>)}}}

StatusEntry(status) == MkDict([status |-> status, sidstOpdateret |-> Null])

\* Records with every shape of the virksomhedsstatus history.
HistoryRecords ==
    {RecordWith("virksomhedsstatus", v) : v \in
        {Absent, Null}
        \cup {List(l) : l \in
                 SeqsUpTo({StatusEntry(Absent), StatusEntry(JStr(<<"A">>)),
                           StatusEntry(JStr(<<"B">>))}, 2)}}

Vaerdi(c) == Dict([vaerdi |-> JStr(<<c>>)])

\* The typed attributes a record may carry: purposes with no, one or two
\* values, another attribute type, and an attribute without a type.
Attributes ==
    {Dict([type |-> FORMAAL, vaerdier |-> List(<<>>)]),
     Dict([type |-> FORMAAL, vaerdier |-> List(<<Vaerdi("p")>>)]),
     Dict([type |-> FORMAAL, vaerdier |-> List(<<Vaerdi("q"), Vaerdi("r")>>)]),
     Dict([type |-> JStr(<<"N", "A", "V", "N">>), vaerdier |-> List(<<Vaerdi("n")>>)])}

MaxAttributes == 2

\* Records with every attribute list up to MaxAttributes, and without one.
AttributeRecords ==
    {RecordWith("attributter", v) : v \in
        {Absent, Null} \cup {List(l) : l \in SeqsUpTo(Attributes, MaxAttributes)}}

\* Records with every shape of nyesteNavn, and without virksomhedMetadata.
NameRecords ==
    {MetadataWith("nyesteNavn", v) : v \in
        {Absent, Null, MkDict([navn |-> Absent]), Dict([navn |-> Null]),
         Dict([navn |-> JStr(<<"A", "p", "S">>)])}}
    \cup {RecordWith("virksomhedMetadata", Absent)}

MaxItems == 2

\* Leaves of every type a stored record can hold: integer, text, null,
\* boolean and floating-point.
CensusLeaves == {JInt(1), JStr(<<"a">>), Null, JBool(FALSE), JFloat("0.5")}

CensusValues ==
    CensusLeaves
    \cup {List(l) : l \in SeqsUpTo(CensusLeaves, MaxItems)}
    \cup {Dict([navn |-> x]) : x \in CensusLeaves}

\* A list of two dicts, as the histories of a company record are.
CensusLists ==
    {List(<<Dict([navn |-> x]), Dict([navn |-> y])>>) : x, y \in CensusLeaves}

\* The record of the documented example.
ExampleCensusRecord == Dict([cvrNummer |-> JInt(33628234)])

\* Records with the envelope's own identifier _id at the root.
IdRecords ==
    {Dict(("_id" :> x) @@ [cvrNummer |-> JInt(1)]) :
        x \in CensusValues \cup {ObjectId}}

CensusRecords ==
    {MkDict([cvrNummer |-> x, navne |-> y]) :
        x \in CensusValues \cup {Absent}, y \in CensusLists \cup {Absent}}
    \cup IdRecords \cup {ExampleCensusRecord}

Records ==
    ShapeRecords \cup CodeRecords \cup DateRecords \cup StatusRecords
    \cup HistoryRecords \cup AttributeRecords \cup NameRecords \cup CensusRecords

-----------------------------------------------------------------------------
\* Calls of the Virksomhed operations on one record.

NoResult == [t |-> "none"]
NoError == [t |-> "none"]

ReaderIdle ==
    /\ lines = <<>>
    /\ fid = [open |-> FALSE, pos |-> 0]
    /\ line_number = 0
    /\ pc = "idle"
    /\ yielded = <<>>
    /\ error = NoError
    /\ header = Null
    /\ csvfile = <<>>

\* No database is being built and no archive is open.
StoreIdle ==
    /\ db = <<>>
    /\ archive = <<>>
    /\ place_id_index = <<>>
    /\ last_line = -1
    /\ place_ids = <<>>

\* No census is running and no text is being cleaned.
OtherIdle ==
    /\ companies = <<>>
    /\ folded = 0
    /\ counts = <<>>
    /\ stop_words = <<>>
    /\ purpose = <<>>
    /\ StoreIdle

InitVirksomhed ==
    /\ data \in Records
    /\ called = "none"
    /\ result = NoResult
    /\ ReaderIdle
    /\ OtherIdle

Call(name, outcome) ==
    /\ pc = "idle"
    /\ called = "none"
    /\ called' = name
    /\ result' = outcome
    /\ UNCHANGED <<otherVars, data, lines, fid, line_number, pc, yielded, error, header, csvfile>>

Call_features == Call("features", features(data))
Call_cvr_nummer == Call("cvr_nummer", cvr_nummer(data))
Call_stiftelsesaar == Call("stiftelsesaar", stiftelsesaar(data))
Call_nyeste_antal_ansatte == Call("nyeste_antal_ansatte", nyeste_antal_ansatte(data))

Call_nyeste_statuskode == Call("nyeste_statuskode", nyeste_statuskode(data))
Call_sidste_virksomhedsstatus ==
    Call("sidste_virksomhedsstatus", sidste_virksomhedsstatus(data))
Call_formaal == Call("formaal", formaal(data))
Call_nyeste_navn == Call("nyeste_navn", nyeste_navn(data))
Call_count_fields == Call("count_fields", count_fields(data))

NextVirksomhed ==
    \/ Call_features
    \/ Call_cvr_nummer
    \/ Call_stiftelsesaar
    \/ Call_nyeste_antal_ansatte
    \/ Call_nyeste_statuskode
    \/ Call_sidste_virksomhedsstatus
    \/ Call_formaal
    \/ Call_nyeste_navn
    \/ Call_count_fields

SpecVirksomhed == InitVirksomhed /\ [][NextVirksomhed]_vars

-----------------------------------------------------------------------------
\* Properties of the field extractor (checked under SpecVirksomhed).

FeatureKeys ==
    <<"cvr_nummer", "antal_penheder", "branche_ansvarskode", "nyeste_antal_ansatte",
      "nyeste_virksomhedsform", "reklamebeskyttet", "sammensat_status",
      "nyeste_hovedbranche_branchekode", "nyeste_hovedbranche_branchetekst",
      "nyeste_statuskode", "stiftelsesaar">>

KeysOf(fv) == [i \in 1..Len(fv) |-> fv[i][1]]

HasKey(obj, key) == obj.t = "dict" /\ key \in DOMAIN obj.d

\* C1: whenever features() returns, the returned mapping has exactly the
\* eleven feature names as its keys, in the documented order, whichever
\* optional source fields are absent.
C1_FeatureKeysFixed ==
    (called = "features" /\ result.t = "ok") => KeysOf(result.v) = FeatureKeys

\* C1 witness: features() returned for a record without
\* nyesteAarsbeskaeftigelse and nyesteHovedbranche; their keys hold the
\* missing-value sentinels.
C1_Witness ==
    /\ called = "features"
    /\ result.t = "ok"
    /\ ~HasKey(data.d["virksomhedMetadata"], "nyesteAarsbeskaeftigelse")
    /\ ~HasKey(data.d["virksomhedMetadata"], "nyesteHovedbranche")
    /\ result.v[4] = <<"nyeste_antal_ansatte", NaN>>
    /\ result.v[8] = <<"nyeste_hovedbranche_branchekode", Null>>

\* C2: for a record with cvrNummer present, features() returns a Feature
\* Vector whatever optional substructure is missing, null or wrongly typed.
C2_NoAccessorRaises ==
    (called = "features" /\ HasKey(data, "cvrNummer")) => result.t = "ok"

\* The exception class cvr_nummer raises for a record without cvrNummer.
MissingIdError == cvr_nummer(Dict(<<>>)).e

\* C8: features() of a record without cvrNummer returns no Feature Vector
\* and fails with the missing-identifier error, and that error class is
\* raised for no other cause (never for a record that has cvrNummer).
C8_MissingIdErrorDistinct ==
    called = "features" =>
        /\ ~HasKey(data, "cvrNummer") =>
               (result.t = "raise" /\ result.e = MissingIdError)
        /\ (HasKey(data, "cvrNummer") /\ result.t = "raise") =>
               result.e # MissingIdError

\* The founding date of the record: Absent when a step of the path
\* virksomhedMetadata.stiftelsesDato is missing.
DateField ==
    IF HasKey(data, "virksomhedMetadata")
       /\ HasKey(data.d["virksomhedMetadata"], "stiftelsesDato")
    THEN data.d["virksomhedMetadata"].d["stiftelsesDato"]
    ELSE Absent

\* C9: stiftelsesaar never raises; for a date string that starts with four
\* digits it returns their value as an integer, and for a missing or null
\* date field it returns the not-a-number sentinel.
C9_FoundingYear ==
    called = "stiftelsesaar" =>
        /\ result.t = "ok"
        /\ DateField \in {Absent, Null} => result = Ok(NaN)
        /\ (DateField.t = "str" /\ Len(DateField.s) >= 4
            /\ \A i \in 1..4 : DateField.s[i] \in Digits) =>
               result = Ok(JInt(1000 * DigitVal(DateField.s[1])
                                + 100 * DigitVal(DateField.s[2])
                                + 10 * DigitVal(DateField.s[3])
                                + DigitVal(DateField.s[4])))

\* The interval code of the record: Absent when a step of the path
\* virksomhedMetadata.nyesteAarsbeskaeftigelse.intervalKodeAntalAnsatte is
\* missing or is not a mapping.
CodeField ==
    IF HasKey(data, "virksomhedMetadata")
       /\ HasKey(data.d["virksomhedMetadata"], "nyesteAarsbeskaeftigelse")
       /\ HasKey(data.d["virksomhedMetadata"].d["nyesteAarsbeskaeftigelse"],
                 "intervalKodeAntalAnsatte")
    THEN data.d["virksomhedMetadata"].d["nyesteAarsbeskaeftigelse"].d[
             "intervalKodeAntalAnsatte"]
    ELSE Absent

\* s[i..j] is the first maximal run of digits of s.
FirstDigitRun(s, i, j) ==
    /\ i <= j
    /\ \A k \in 1..(i - 1) : s[k] \notin Digits
    /\ \A k \in i..j : s[k] \in Digits
    /\ j = Len(s) \/ s[j + 1] \notin Digits

\* C10: nyeste_antal_ansatte returns the first maximal run of digits of the
\* interval code as an integer, and the not-a-number sentinel when the field
\* or a step of its path is absent, null, not a string or without a digit.
C10_EmployeeBracket ==
    called = "nyeste_antal_ansatte" =>
        IF CodeField.t = "str" /\ \E k \in 1..Len(CodeField.s) : CodeField.s[k] \in Digits
        THEN \E i, j \in 1..Len(CodeField.s) :
                 /\ FirstDigitRun(CodeField.s, i, j)
                 /\ result = Ok(JInt(DecVal(SubSeq(CodeField.s, i, j))))
        ELSE result = Ok(NaN)

\* C10 witness: the interval code "51-100 medarbejdere" gave 51.
C10_Witness ==
    /\ called = "nyeste_antal_ansatte"
    /\ CodeField = ExampleCode
    /\ result = Ok(JInt(51))

\* C10 witness for the missing case: a record without virksomhedMetadata
\* gave the sentinel.
C10_WitnessMissing ==
    /\ called = "nyeste_antal_ansatte"
    /\ ~HasKey(data, "virksomhedMetadata")
    /\ result = Ok(NaN)

\* The member at virksomhedMetadata.<outer>.<inner>, Absent when a step of
\* the path does not resolve.
MetadataField(outer, inner) ==
    IF HasKey(data, "virksomhedMetadata")
       /\ HasKey(data.d["virksomhedMetadata"], outer)
       /\ HasKey(data.d["virksomhedMetadata"].d[outer], inner)
    THEN data.d["virksomhedMetadata"].d[outer].d[inner]
    ELSE Absent

StatusField == MetadataField("nyesteStatus", "statuskode")

C11_WitnessMissing ==
    /\ called = "nyeste_statuskode"
    /\ HasKey(data, "virksomhedMetadata")
    /\ HasKey(data.d["virksomhedMetadata"], "nyesteStatus")
    /\ data.d["virksomhedMetadata"].d["nyesteStatus"] = Null
    /\ result = Ok(JStr(<<"N", "o", "n", "e">>))

HistoryField ==
    IF HasKey(data, "virksomhedsstatus") THEN data.d["virksomhedsstatus"] ELSE Absent

\* C12: sidste_virksomhedsstatus returns the status of the last entry of the
\* virksomhedsstatus list and the empty string when the list is empty; when
\* the list key is missing or the last entry has no status it returns
\* instead of raising.
C12_LastStatus ==
    (called = "sidste_virksomhedsstatus"
     /\ (HistoryField = Absent \/ HistoryField.t = "list")) =>
        /\ result.t = "ok"
        /\ (HistoryField # Absent /\ HistoryField.l = <<>>) => result.v = JStr(<<>>)
        /\ (HistoryField # Absent /\ HistoryField.l # <<>>
            /\ HasKey(HistoryField.l[Len(HistoryField.l)], "status")) =>
               result.v = HistoryField.l[Len(HistoryField.l)].d["status"]

PurposeField ==
    IF HasKey(data, "attributter") THEN data.d["attributter"] ELSE Absent

\* The positions of the attributes tagged FORMAAL in the attribute list.
Tagged(attributes) ==
    {i \in 1..Len(attributes) : attributes[i].d["type"] = FORMAAL}

FirstTagged(attributes) ==
    CHOOSE i \in Tagged(attributes) : \A j \in Tagged(attributes) : i <= j

\* C13: formaal returns, in order, the vaerdi strings of the first attribute
\* tagged FORMAAL, and the empty list when no attribute has the tag or the
\* record has no attribute list.
C13_Purposes ==
    (called = "formaal" /\ (PurposeField = Absent \/ PurposeField.t = "list")) =>
        IF PurposeField = Absent \/ Tagged(PurposeField.l) = {}
        THEN result = Ok(List(<<>>))
        ELSE LET values == PurposeField.l[FirstTagged(PurposeField.l)].d["vaerdier"].l
             IN result = Ok(List([k \in 1..Len(values) |-> values[k].d["vaerdi"]]))

NameField == MetadataField("nyesteNavn", "navn")

\* C14: nyeste_navn returns the empty string whenever
\* virksomhedMetadata.nyesteNavn.navn cannot be accessed (virksomhedMetadata
\* missing, nyesteNavn missing or null, navn missing) and the value of the
\* field otherwise.
C14_NewestName ==
    called = "nyeste_navn" =>
        IF NameField # Absent THEN result = Ok(NameField) ELSE result = Ok(JStr(<<>>))

\* The ways down from a value to its leaves of the given types: each way is
\* the sequence of steps taken, a dict key or a list position.
RECURSIVE LeafWays(_, _)
LeafWays(value, types) ==
    CASE value.t = "dict" ->
             UNION {{<<[key |-> k]>> \o w : w \in LeafWays(value.d[k], types)} :
                       k \in DOMAIN value.d}
      [] value.t = "list" ->
             UNION {{<<[index |-> i]>> \o w : w \in LeafWays(value.l[i], types)} :
                       i \in 1..Len(value.l)}
      [] OTHER -> IF value.t \in types THEN {<<>>} ELSE {}

\* The keys along a way, in order; list positions leave no trace.
RECURSIVE KeysAlong(_)
KeysAlong(way) ==
    IF way = <<>> THEN <<>>
    ELSE IF "key" \in DOMAIN Head(way)
         THEN <<Head(way).key>> \o KeysAlong(Tail(way))
         ELSE KeysAlong(Tail(way))

\* The keys joined by '.'.
RECURSIVE Dotted(_)
Dotted(keys) ==
    IF keys = <<>> THEN ""
    ELSE IF Len(keys) = 1 THEN keys[1]
    ELSE keys[1] \o "." \o Dotted(Tail(keys))

DottedPath(way) == Dotted(KeysAlong(way))

\* The record is built from dicts, lists and leaves of the given types only.
OnlyLeaves(types) == LeafWays(data, {"str", "int", "null", "bool", "float", "objectid"} \ types) = {}

CountedWays == LeafWays(data, {"str", "int"})

\* C15: for a record built from dicts, lists, strings, integers and nulls,
\* count_fields returns exactly the multiset of the dotted paths of its
\* textual and integral leaves: lists are flattened, a null leaf contributes
\* nothing, no path starts with '.'; {'cvrNummer': 33628234} gives
\* {'cvrNummer': 1}.
C15_FieldMultiset ==
    (called = "count_fields" /\ OnlyLeaves({"str", "int", "null"})) =>
        /\ result.t = "ok"
        /\ DOMAIN result.v.c = {DottedPath(w) : w \in CountedWays}
        /\ \A p \in DOMAIN result.v.c :
               result.v.c[p] = Cardinality({w \in CountedWays : DottedPath(w) = p})
        /\ data = ExampleCensusRecord => result.v.c = [cvrNummer |-> 1]

\* C15 witness: a record with a list under cvrNummer and two names in the
\* navne list, one of them null, was counted.
C15_Witness ==
    /\ called = "count_fields"
    /\ data = Dict([cvrNummer |-> List(<<JInt(1), JStr(<<"a">>)>>),
                    navne |-> List(<<Dict([navn |-> JStr(<<"a">>)]),
                                     Dict([navn |-> Null])>>)])
    /\ result = Ok([t |-> "counter", c |-> ("cvrNummer" :> 2) @@ ("navne.navn" :> 1)])

\* C15 witness for the documented example.
C15_WitnessExample ==
    /\ called = "count_fields"
    /\ data = ExampleCensusRecord
    /\ result = Ok([t |-> "counter", c |-> [cvrNummer |-> 1]])

\* C16: count_fields emits nothing for the field _id at the root of the
\* record, whether its value is a string, an integer or of another type,
\* and still counts cvrNummer.
C16_RootIdNotCounted ==
    (called = "count_fields" /\ data \in IdRecords
     /\ data.d["_id"].t \in {"str", "int", "objectid"}) =>
        /\ result.t = "ok"
        /\ "_id" \notin DOMAIN result.v.c
        /\ result.v.c["cvrNummer"] = 1

\* The ways to the leaves that are neither text, integer nor null and do not
\* lie at the root _id.
NotRootId(way) == DottedPath(way) # "_id"

OtherWays(types) == {w \in LeafWays(data, types) : NotRootId(w)}

\* C17 as stated: a record with a leaf of a type other than text, integer or
\* null, at a path other than the root _id, makes count_fields end in the
\* assertion failure and return no counts.
C17_UnhandledTypeOriginal ==
    (called = "count_fields" /\ OtherWays({"bool", "float", "objectid"}) # {}) =>
        result = AssertionError

\* C17 amended: a record with a leaf of a type other than text, integer,
\* boolean or null, at a path other than the root _id, makes count_fields
\* end in the assertion failure and return no counts; a boolean leaf is
\* counted as an integer.
C17_UnhandledType ==
    /\ (called = "count_fields" /\ OtherWays({"float", "objectid"}) # {}) =>
           result = AssertionError
    /\ (called = "count_fields" /\ OtherWays({"float", "objectid"}) = {}) =>
           /\ result.t = "ok"
           /\ \A w \in LeafWays(data, {"bool"}) : DottedPath(w) \in DOMAIN result.v.c

\* C17 witness: a floating-point name in the navne list, after a counted
\* cvrNummer, ended the count in the assertion failure.
C17_Witness ==
    /\ called = "count_fields"
    /\ data = Dict([cvrNummer |-> JInt(1),
                    navne |-> List(<<Dict([navn |-> JStr(<<"a">>)]),
                                     Dict([navn |-> JFloat("0.5")])>>)])
    /\ result = AssertionError

\* C17 witness for the boolean leaf: it was counted.
C17_WitnessBoolean ==
    /\ called = "count_fields"
    /\ data = Dict([cvrNummer |-> JBool(FALSE)])
    /\ result = Ok([t |-> "counter", c |-> [cvrNummer |-> 1]])

-----------------------------------------------------------------------------
\* cvrfile.CvrFile: the lines of the input file, as text, and what
\* json.loads decodes them to.

LineMeta ==
    "{\"_type\":\"meta\",\"_source\":{\"NewestRetrievedFileTimestampForBeskaeftigelse\":\"2016\"}}\n"

LineMetaObj ==
    Dict([_type |-> JStr(<<"m", "e", "t", "a">>), _source |->
        Dict([NewestRetrievedFileTimestampForBeskaeftigelse |-> JStr(<<"2", "0",
        "1", "6">>)])])

LineEnhed ==
    "{\"_type\":\"produktionsenhed\",\"_source\":{\"VrproduktionsEnhed\":{\"pNummer\":7}}}\n"

LineEnhedObj ==
    Dict([_type |-> JStr(<<"p", "r", "o", "d", "u", "k", "t", "i", "o", "n", "s",
        "e", "n", "h", "e", "d">>), _source |-> Dict([VrproduktionsEnhed |->
        Dict([pNummer |-> JInt(7)])])])

LineVirksomhed1 ==
    "{\"_type\":\"virksomhed\",\"_source\":{\"Vrvirksomhed\":{\"cvrNummer\":1,\"brancheAnsvarskode\":null,\"reklamebeskyttet\":false,\"virksomhedMetadata\":{\"antalPenheder\":1,\"sammensatStatus\":\"NORMAL\",\"stiftelsesDato\":\"1998-07-14T00:00:00\"}}}}\n"

LineVirksomhed1Obj ==
    Dict([_type |-> JStr(<<"v", "i", "r", "k", "s", "o", "m", "h", "e", "d">>),
        _source |-> Dict([Vrvirksomhed |-> Dict([cvrNummer |-> JInt(1),
        brancheAnsvarskode |-> Null, reklamebeskyttet |-> JBool(FALSE),
        virksomhedMetadata |-> Dict([antalPenheder |-> JInt(1), sammensatStatus |->
        JStr(<<"N", "O", "R", "M", "A", "L">>), stiftelsesDato |->
        ExampleDate])])])])

LineVirksomhed2 ==
    "{\"_type\":\"virksomhed\",\"_source\":{\"Vrvirksomhed\":{\"cvrNummer\":2,\"brancheAnsvarskode\":65,\"reklamebeskyttet\":true,\"virksomhedMetadata\":{\"antalPenheder\":1,\"sammensatStatus\":\"NORMAL\",\"stiftelsesDato\":null,\"nyesteAarsbeskaeftigelse\":{\"intervalKodeAntalAnsatte\":\"51-100 medarbejdere\"}}}}}\n"

LineVirksomhed2Obj ==
    Dict([_type |-> JStr(<<"v", "i", "r", "k", "s", "o", "m", "h", "e", "d">>),
        _source |-> Dict([Vrvirksomhed |-> Dict([cvrNummer |-> JInt(2),
        brancheAnsvarskode |-> JInt(65), reklamebeskyttet |-> JBool(TRUE),
        virksomhedMetadata |-> Dict([antalPenheder |-> JInt(1), sammensatStatus |->
        JStr(<<"N", "O", "R", "M", "A", "L">>), stiftelsesDato |-> Null,
        nyesteAarsbeskaeftigelse |-> Dict([intervalKodeAntalAnsatte |->
        ExampleCode])])])])])

\* A second record for the company of LineVirksomhed1.
LineVirksomhed1Again ==
    "{\"_type\":\"virksomhed\",\"_source\":{\"Vrvirksomhed\":{\"cvrNummer\":1,\"brancheAnsvarskode\":65}}}\n"

LineVirksomhed1AgainObj ==
    Dict([_type |-> JStr(<<"v", "i", "r", "k", "s", "o", "m", "h", "e", "d">>),
        _source |-> Dict([Vrvirksomhed |-> Dict([cvrNummer |-> JInt(1),
        brancheAnsvarskode |-> JInt(65)])])])

LineNoId ==
    "{\"_type\":\"virksomhed\",\"_source\":{\"Vrvirksomhed\":{\"brancheAnsvarskode\":null}}}\n"

LineNoIdObj ==
    Dict([_type |-> JStr(<<"v", "i", "r", "k", "s", "o", "m", "h", "e", "d">>),
        _source |-> Dict([Vrvirksomhed |-> Dict([brancheAnsvarskode |-> Null])])])

LineNoMetadata ==
    "{\"_type\":\"virksomhed\",\"_source\":{\"Vrvirksomhed\":{\"cvrNummer\":3}}}\n"

LineNoMetadataObj ==
    Dict([_type |-> JStr(<<"v", "i", "r", "k", "s", "o", "m", "h", "e", "d">>),
        _source |-> Dict([Vrvirksomhed |-> Dict([cvrNummer |-> JInt(3)])])])

LineNoSource ==
    "{\"_type\":\"virksomhed\"}\n"

LineNoSourceObj ==
    Dict([_type |-> JStr(<<"v", "i", "r", "k", "s", "o", "m", "h", "e", "d">>)])

LineTruncated ==
    "{\"_type\":\"virksomhed\",\"_source\":{\"Vrvirksomhed\":{\"cvrNummer\":4\n"

LineBlank ==
    "\n"

\* readline() at end of file.
EndOfFile == ""

\* json.loads on the lines above: the decoded object, or ValueError for text
\* that is not a JSON document (the truncated line, the blank line and the
\* empty string readline() returns at end of file).
json_loads(line) ==
    CASE line = LineMeta -> Ok(LineMetaObj)
      [] line = LineEnhed -> Ok(LineEnhedObj)
      [] line = LineVirksomhed1 -> Ok(LineVirksomhed1Obj)
      [] line = LineVirksomhed2 -> Ok(LineVirksomhed2Obj)
      [] line = LineVirksomhed1Again -> Ok(LineVirksomhed1AgainObj)
      [] line = LineNoId -> Ok(LineNoIdObj)
      [] line = LineNoMetadata -> Ok(LineNoMetadataObj)
      [] line = LineNoSource -> Ok(LineNoSourceObj)
      [] OTHER -> ValueError

MaxLines == 3

SampleLines ==
    {LineMeta,
     LineEnhed,
     LineVirksomhed1,
     LineVirksomhed2,
     LineNoId,
     LineNoMetadata,
     LineNoSource,
     LineTruncated,
     LineBlank}

Files == UNION {[1..k -> SampleLines] : k \in 0..MaxLines}

\* self.fid.readline(): the next line, or the empty string at end of file.
readline(f) == IF f.pos < Len(lines) THEN lines[f.pos + 1] ELSE EndOfFile
advance(f) == IF f.pos < Len(lines) THEN [f EXCEPT !.pos = f.pos + 1] ELSE f

\* The ValueError __next__ raises, with the arguments of its message:
\* "No JSON object could be decoded in line {}: {}".format(line_number, line)
DecodeError(n, line) ==
    [t |-> "raise", e |-> "ValueError", line_number |-> n, line |-> line]

\* A __next__ that formats the message before counting the line.
next_count_after(f, n) ==
    LET line == readline(f)
        decoded == json_loads(line)
    IN [fid |-> advance(f), line_number |-> n + 1,
        outcome |-> IF decoded.t = "raise" THEN DecodeError(n, line) ELSE decoded]

\* CvrFile.__next__: what it leaves in fid and line_number, and its outcome.
next(f, n) ==
    LET line == readline(f)
        decoded == json_loads(line)
    IN [fid |-> advance(f), line_number |-> n + 1,
        outcome |-> IF decoded.t = "raise" THEN DecodeError(n + 1, line) ELSE decoded]

VirksomhedIdle ==
    /\ data = Null
    /\ called = "none"
    /\ result = NoResult

\* CvrFile(filename): the file is opened and no line has been read.
InitCvrFile ==
    /\ lines \in Files
    /\ fid = [open |-> TRUE, pos |-> 0]
    /\ line_number = 0
    /\ yielded = <<>>
    /\ error = NoError
    /\ header = Null
    /\ csvfile = <<>>
    /\ VirksomhedIdle
    /\ OtherIdle

-----------------------------------------------------------------------------
\* pretty_print: for obj in CvrFile(filename): pprint(obj)

InitReader == InitCvrFile /\ pc = "for"

\* One pass of the for loop whose __next__ returns an object.
Reader_next_returns ==
    /\ pc = "for"
    /\ LET r == next(fid, line_number)
       IN /\ r.outcome.t = "ok"
          /\ fid' = r.fid
          /\ line_number' = r.line_number
          /\ yielded' = Append(yielded, r.outcome.v)
    /\ UNCHANGED <<otherVars, data, called, result, lines, pc, error, header, csvfile>>

\* A for loop that swallows the error and goes on with the next line.
Reader_next_raises_and_continues ==
    /\ pc = "for"
    /\ LET r == next(fid, line_number)
       IN /\ r.outcome.t = "raise"
          /\ fid.pos < Len(lines)
          /\ fid' = r.fid
          /\ line_number' = r.line_number
          /\ error' = r.outcome
    /\ UNCHANGED <<otherVars, data, called, result, lines, pc, yielded, header, csvfile>>

\* One pass of the for loop whose __next__ raises: the exception leaves the
\* loop and the function.
Reader_next_raises ==
    /\ pc = "for"
    /\ LET r == next(fid, line_number)
       IN /\ r.outcome.t = "raise"
          /\ fid' = r.fid
          /\ line_number' = r.line_number
          /\ error' = r.outcome
    /\ pc' = "raised"
    /\ UNCHANGED <<otherVars, data, called, result, lines, yielded, header, csvfile>>

NextReader == Reader_next_returns \/ Reader_next_raises

SpecReader == InitReader /\ [][NextReader]_vars

-----------------------------------------------------------------------------
\* Properties of the record reader (checked under SpecReader).

ValidJson(line) == json_loads(line).t = "ok"

\* Line k is the first line of the file that is not valid JSON.
FirstInvalid(k) ==
    /\ k \in 1..Len(lines)
    /\ ~ValidJson(lines[k])
    /\ \A j \in 1..(k - 1) : ValidJson(lines[j])

\* C3: once the reader has read a line k that is not valid JSON, the loop
\* has failed with an error carrying the 1-based number k and the raw text
\* of line k, and line k was neither returned as a record nor skipped (no
\* line after it has been read).
C3_MalformedLineError ==
    \A k \in 1..Len(lines) :
        (FirstInvalid(k) /\ fid.pos >= k) =>
            /\ pc = "raised"
            /\ error.e = "ValueError"
            /\ error.line_number = k
            /\ error.line = lines[k]
            /\ fid.pos = k
            /\ Len(yielded) = k - 1

\* C3 witness: line 2 of a three-line file is truncated JSON and the reader
\* has failed on it.
C3_Witness ==
    /\ Len(lines) = 3
    /\ lines[2] = LineTruncated
    /\ pc = "raised"
    /\ error = DecodeError(2, LineTruncated)

\* The objects decoded from the first n lines.
Decoded(n) == [i \in 1..n |-> json_loads(lines[i]).v]

\* C4: the records delivered are always the decoded lines before the first
\* unparsable line k, in order, and never more than k - 1 of them: for a
\* three-line file whose line 2 is invalid the reader ends having delivered
\* exactly the record of line 1.
C4_HaltsAtFirstMalformed ==
    \A k \in 1..Len(lines) :
        FirstInvalid(k) =>
            /\ Len(yielded) <= k - 1
            /\ yielded = Decoded(Len(yielded))
            /\ pc = "raised" => yielded = Decoded(k - 1)

\* C4 witness: three lines, line 2 a blank line; the reader has stopped with
\* the record of line 1 delivered and line 3 (a valid record) not delivered.
C4_Witness ==
    /\ Len(lines) = 3
    /\ lines[1] = LineVirksomhed1
    /\ lines[2] = LineBlank
    /\ lines[3] = LineVirksomhed2
    /\ pc = "raised"
    /\ error.line_number = 2
    /\ yielded = <<LineVirksomhed1Obj>>

\* C5: iterating a file of N well-formed lines (N >= 1) ends without an
\* error: a loop that has ended with an exception has met a line that is
\* not valid JSON.
C5_CleanEndOfInput ==
    (Len(lines) >= 1 /\ pc = "raised") =>
        \E k \in 1..Len(lines) : ~ValidJson(lines[k])

\* C7: in every terminal state of an iteration the read handle is closed.
C7_HandleReleased ==
    pc \in {"done", "raised"} => ~fid.open

-----------------------------------------------------------------------------
\* CvrFile.write_virksomhed_features_file: the csv loop over
\* iter_virksomhed_features, which pulls iter_virksomhed, which pulls
\* __next__. One action is one line pulled through the three of them.

\* key in obj: a dict is searched for the key; None, numbers and booleans
\* are not iterable (text and lists do not occur under _source here).
contains(obj, key) ==
    IF obj.t = "dict" THEN Ok(key \in DOMAIN obj.d) ELSE TypeError

Continue == [t |-> "continue"]

\* iter_virksomhed's loop body for one decoded object: raise, skip the
\* object, or yield the data of a Virksomhed.
iter_virksomhed_body(obj) ==
    LET source == getitem(obj, "_source")
        found == contains(source.v, "Vrvirksomhed")
    IN IF source.t = "raise" THEN source
       ELSE IF found.t = "raise" THEN found
       ELSE IF ~found.v THEN Continue
       ELSE getitem(source.v, "Vrvirksomhed")

\* iter_virksomhed_features' loop body for one Virksomhed: its features, or
\* what the except clause raises: formatting the message calls __str__
\* (which reads cvr_nummer), then the caught exception instance is called.
iter_virksomhed_features_body(d) ==
    LET feats == features(d)
        text == virksomhed_str(d)
    IN IF feats.t = "ok" THEN feats
       ELSE IF text.t = "raise" THEN text
       ELSE TypeError

Keys(fv) == [t |-> "keys", keys |-> [i \in 1..Len(fv) |-> fv[i][1]]]
Values(fv) == [i \in 1..Len(fv) |-> fv[i][2]]

InitBatch == InitCvrFile /\ pc = "write"

\* __next__ raises: the exception leaves the generators and the csv loop.
Batch_next_raises ==
    /\ pc = "write"
    /\ LET r == next(fid, line_number)
       IN /\ r.outcome.t = "raise"
          /\ fid' = r.fid
          /\ line_number' = r.line_number
          /\ error' = r.outcome
    /\ pc' = "raised"
    /\ UNCHANGED <<otherVars, data, called, result, lines, yielded, header, csvfile>>

\* The decoded object has no usable _source: iter_virksomhed raises.
Batch_iter_virksomhed_raises ==
    /\ pc = "write"
    /\ LET r == next(fid, line_number)
       IN /\ r.outcome.t = "ok"
          /\ iter_virksomhed_body(r.outcome.v).t = "raise"
          /\ fid' = r.fid
          /\ line_number' = r.line_number
          /\ yielded' = Append(yielded, r.outcome.v)
          /\ error' = iter_virksomhed_body(r.outcome.v)
    /\ pc' = "raised"
    /\ UNCHANGED <<otherVars, data, called, result, lines, header, csvfile>>

\* The decoded object is no virksomhed: iter_virksomhed goes on.
Batch_continue ==
    /\ pc = "write"
    /\ LET r == next(fid, line_number)
       IN /\ r.outcome.t = "ok"
          /\ iter_virksomhed_body(r.outcome.v) = Continue
          /\ fid' = r.fid
          /\ line_number' = r.line_number
          /\ yielded' = Append(yielded, r.outcome.v)
    /\ UNCHANGED <<otherVars, data, called, result, lines, pc, error, header, csvfile>>

\* features() of the Virksomhed raises: the except clause raises in turn.
Batch_features_raises ==
    /\ pc = "write"
    /\ LET r == next(fid, line_number)
           v == iter_virksomhed_body(r.outcome.v)
       IN /\ r.outcome.t = "ok"
          /\ v.t = "ok"
          /\ iter_virksomhed_features_body(v.v).t = "raise"
          /\ fid' = r.fid
          /\ line_number' = r.line_number
          /\ yielded' = Append(yielded, r.outcome.v)
          /\ data' = v.v
          /\ error' = iter_virksomhed_features_body(v.v)
    /\ pc' = "raised"
    /\ UNCHANGED <<otherVars, called, result, lines, header, csvfile>>

\* A writer that puts the keys of every Feature Vector in front of its row.
Batch_writerow_header_each ==
    /\ pc = "write"
    /\ LET r == next(fid, line_number)
           v == iter_virksomhed_body(r.outcome.v)
           feats == iter_virksomhed_features_body(v.v)
       IN /\ r.outcome.t = "ok"
          /\ v.t = "ok"
          /\ feats.t = "ok"
          /\ fid' = r.fid
          /\ line_number' = r.line_number
          /\ yielded' = Append(yielded, r.outcome.v)
          /\ data' = v.v
          /\ header' = Keys(feats.v)
          /\ csvfile' = csvfile \o <<Keys(feats.v).keys, Values(feats.v)>>
    /\ UNCHANGED <<otherVars, called, result, lines, pc, error>>

\* features() returns: the header is written if none was, then the row.
Batch_writerow ==
    /\ pc = "write"
    /\ LET r == next(fid, line_number)
           v == iter_virksomhed_body(r.outcome.v)
           feats == iter_virksomhed_features_body(v.v)
       IN /\ r.outcome.t = "ok"
          /\ v.t = "ok"
          /\ feats.t = "ok"
          /\ fid' = r.fid
          /\ line_number' = r.line_number
          /\ yielded' = Append(yielded, r.outcome.v)
          /\ data' = v.v
          /\ header' = IF header = Null THEN Keys(feats.v) ELSE header
          /\ csvfile' = IF header = Null
                        THEN csvfile \o <<Keys(feats.v).keys, Values(feats.v)>>
                        ELSE Append(csvfile, Values(feats.v))
    /\ UNCHANGED <<otherVars, called, result, lines, pc, error>>

NextBatch ==
    \/ Batch_next_raises
    \/ Batch_iter_virksomhed_raises
    \/ Batch_continue
    \/ Batch_features_raises
    \/ Batch_writerow

SpecBatch == InitBatch /\ [][NextBatch]_vars

-----------------------------------------------------------------------------
\* Properties of the batch run (checked under SpecBatch).

\* Line k holds a malformed record: it is not valid JSON, or it is a
\* virksomhed record without the company identifier.
Malformed(k) ==
    \/ ~ValidJson(lines[k])
    \/ LET v == iter_virksomhed_body(json_loads(lines[k]).v)
       IN v.t = "ok" /\ ~HasKey(v.v, "cvrNummer")

\* The number of virksomhed records among the lines.
NumVirksomhed ==
    Cardinality({k \in 1..Len(lines) :
        ValidJson(lines[k]) /\ iter_virksomhed_body(json_loads(lines[k]).v).t = "ok"})

\* C6: a batch run over a file of N >= 1 lines ends in one of two ways:
\* normally, with a table of one header and one row per record, or at the
\* first malformed record, with an error that carries the line number of
\* that record and its content.
C6_TwoOutcomes ==
    (Len(lines) >= 1 /\ pc # "write") =>
        \/ /\ pc = "done"
           /\ error = NoError
           /\ Len(csvfile) = 1 + NumVirksomhed
        \/ /\ pc = "raised"
           /\ \E k \in 1..Len(lines) :
                  /\ Malformed(k)
                  /\ \A j \in 1..(k - 1) : ~Malformed(j)
                  /\ "line_number" \in DOMAIN error
                  /\ error.line_number = k
                  /\ error.line = lines[k]

\* The Feature Vectors of the objects read so far: of each object that holds
\* a virksomhed whose features() returned, in order.
RECURSIVE RowVectors(_)
RowVectors(objs) ==
    IF objs = <<>> THEN <<>>
    ELSE LET v == iter_virksomhed_body(Head(objs))
         IN IF v.t = "ok" /\ features(v.v).t = "ok"
            THEN <<features(v.v).v>> \o RowVectors(Tail(objs))
            ELSE RowVectors(Tail(objs))

ValuesOf(fv) == [i \in 1..Len(fv) |-> fv[i][2]]

\* C23: the header row is written once, from the keys of the first Feature
\* Vector and before any data row, then one row per Feature Vector with its
\* values in order; two Feature Vectors give three lines, each with as many
\* columns as there are keys.
C23_HeaderOnce ==
    LET fvs == RowVectors(yielded)
    IN IF fvs = <<>> THEN csvfile = <<>>
       ELSE /\ csvfile = <<KeysOf(fvs[1])>> \o [i \in 1..Len(fvs) |-> ValuesOf(fvs[i])]
            /\ \A i \in 1..Len(csvfile) : Len(csvfile[i]) = Len(KeysOf(fvs[1]))
            /\ Len(fvs) = 2 => Len(csvfile) = 3

\* C23 witness: a file of two companies was written as three lines of
\* eleven columns, the header first.
C23_Witness ==
    /\ lines = <<LineVirksomhed1, LineVirksomhed2>>
    /\ pc = "raised"
    /\ Len(csvfile) = 3
    /\ csvfile[1] = FeatureKeys
    /\ Len(csvfile[3]) = 11
    /\ csvfile[3][1] = JInt(2)

\* Line k holds a record with a _source, and with the company identifier if
\* it is a virksomhed.
WellFormed(k) ==
    /\ ~Malformed(k)
    /\ HasKey(json_loads(lines[k]).v, "_source")
    /\ json_loads(lines[k]).v.d["_source"].t = "dict"

\* The lines that hold a virksomhed, in input order.
VirksomhedLines == {k \in 1..Len(lines) : HasKey(json_loads(lines[k]).v.d["_source"], "Vrvirksomhed")}

\* C24: after a pass over well-formed records the table holds one row per
\* record whose _source has the key Vrvirksomhed, in input order, and none
\* for the other records, which are skipped without an error.
C24_OneRowPerVirksomhed ==
    (pc # "write" /\ \A k \in 1..Len(lines) : WellFormed(k)) =>
        /\ Len(yielded) = Len(lines)
        /\ Len(RowVectors(yielded)) = Cardinality(VirksomhedLines)
        /\ VirksomhedLines # {} => Len(csvfile) = 1 + Cardinality(VirksomhedLines)

-----------------------------------------------------------------------------
\* The loop of write_virksomhed_features_file on its own, over whatever
\* ordered mappings its generator yields: the writer does not look at where
\* they come from.

MaxVectors == 3

\* Ordered mappings as a producer may yield them: two with the same keys in
\* the same order, one with the keys in another order, one with a key less
\* and one with another key.
SampleVectors ==
    {<<<<"cvr_nummer", JInt(1)>>, <<"antal_penheder", JInt(2)>>>>,
     <<<<"cvr_nummer", JInt(3)>>, <<"antal_penheder", JInt(4)>>>>,
     <<<<"antal_penheder", JInt(5)>>, <<"cvr_nummer", JInt(6)>>>>,
     <<<<"cvr_nummer", JInt(7)>>>>,
     <<<<"cvr_nummer", JInt(8)>>, <<"stiftelsesaar", NaN>>>>}

\* with open(filename, 'w') as csvfile: ... header = None
InitWriter ==
    /\ pc = "writer"
    /\ lines = <<>>
    /\ fid = [open |-> FALSE, pos |-> 0]
    /\ line_number = 0
    /\ yielded = <<>>
    /\ error = NoError
    /\ header = Null
    /\ csvfile = <<>>
    /\ VirksomhedIdle
    /\ OtherIdle

\* `not header`: None is falsy, and so is a keys object without keys.
not_header == header = Null \/ header.keys = <<>>

\* A writer that checks each mapping against the header and raises when the
\* keys differ.
Writer_writerow_validating ==
    /\ pc = "writer"
    /\ Len(yielded) < MaxVectors
    /\ \E feats \in SampleVectors :
          /\ yielded' = Append(yielded, feats)
          /\ IF not_header \/ header = Keys(feats)
             THEN /\ header' = IF not_header THEN Keys(feats) ELSE header
                  /\ csvfile' = IF not_header
                                THEN csvfile \o <<Keys(feats).keys, Values(feats)>>
                                ELSE Append(csvfile, Values(feats))
                  /\ UNCHANGED <<pc, error>>
             ELSE /\ pc' = "raised"
                  /\ error' = ValueError
                  /\ UNCHANGED <<header, csvfile>>
    /\ UNCHANGED <<otherVars, data, called, result, lines, fid, line_number>>

\* One turn of the loop: the header is written if there is none, then the
\* values of the mapping.
Writer_writerow ==
    /\ pc = "writer"
    /\ Len(yielded) < MaxVectors
    /\ \E feats \in SampleVectors :
          /\ yielded' = Append(yielded, feats)
          /\ header' = IF not_header THEN Keys(feats) ELSE header
          /\ csvfile' = IF not_header
                        THEN csvfile \o <<Keys(feats).keys, Values(feats)>>
                        ELSE Append(csvfile, Values(feats))
    /\ UNCHANGED <<otherVars, data, called, result, lines, fid, line_number, pc, error>>

\* The generator is exhausted: the loop and the with block end.
Writer_done ==
    /\ pc = "writer"
    /\ pc' = "done"
    /\ UNCHANGED <<otherVars, data, called, result, lines, fid, line_number,
                   yielded, error, header, csvfile>>

NextWriter == Writer_writerow \/ Writer_done

SpecWriter == InitWriter /\ [][NextWriter]_vars

-----------------------------------------------------------------------------
\* cvrmongo build-database: every virksomhed of the file is inserted in the
\* companies collection, which has a unique index on cvrNummer.

DuplicateKeyError == [t |-> "raise", e |-> "DuplicateKeyError"]

\* The key of a document in the index on cvrNummer: a document without the
\* field is indexed under null.
index_key(doc) == IF HasKey(doc, "cvrNummer") THEN doc.d["cvrNummer"] ELSE Null

\* The document as stored: insert_one gives it an _id if it has none.
with_id(doc) ==
    IF "_id" \in DOMAIN doc.d THEN doc ELSE Dict(("_id" :> ObjectId) @@ doc.d)

\* An insert that replaces the stored document with the same cvrNummer.
insert_or_replace(collection, doc) ==
    IF doc.t # "dict" THEN TypeError
    ELSE IF \E i \in 1..Len(collection) : index_key(collection[i]) = index_key(doc)
    THEN Ok([i \in 1..Len(collection) |->
                IF index_key(collection[i]) = index_key(doc)
                THEN with_id(doc) ELSE collection[i]])
    ELSE Ok(Append(collection, with_id(doc)))

\* db.companies.insert_one(doc) under the unique index: the collection
\* afterwards, or the error raised, which leaves the collection as it was.
insert_one(collection, doc) ==
    IF doc.t # "dict" THEN TypeError
    ELSE IF \E i \in 1..Len(collection) : index_key(collection[i]) = index_key(doc)
    THEN DuplicateKeyError
    ELSE Ok(Append(collection, with_id(doc)))

\* Input files of the build: records of two companies, one of them in two
\* versions, records of other types and a truncated line.
BuildLines ==
    {LineMeta, LineVirksomhed1, LineVirksomhed1Again, LineVirksomhed2, LineNoId,
     LineTruncated}

BuildFiles == UNION {[1..k -> BuildLines] : k \in 0..MaxLines}

\* cvr_mongo = CvrMongo(); cvr_file = CvrFile(), on an empty collection.
InitBuild ==
    /\ lines \in BuildFiles
    /\ fid = [open |-> TRUE, pos |-> 0]
    /\ line_number = 0
    /\ yielded = <<>>
    /\ error = NoError
    /\ header = Null
    /\ csvfile = <<>>
    /\ pc = "build"
    /\ VirksomhedIdle
    /\ companies = <<>>
    /\ folded = 0
    /\ counts = <<>>
    /\ stop_words = <<>>
    /\ purpose = <<>>
    /\ db = <<>>
    /\ archive = <<>>
    /\ place_id_index = <<>>
    /\ last_line = -1
    /\ place_ids = <<>>

buildUnchanged ==
    <<data, called, result, lines, header, csvfile, companies, folded, counts,
      stop_words, purpose, archive, place_id_index, last_line, place_ids>>

\* __next__ raises: the exception leaves iter_virksomhed and the build.
Build_next_raises ==
    /\ pc = "build"
    /\ LET r == next(fid, line_number)
       IN /\ r.outcome.t = "raise"
          /\ fid' = r.fid
          /\ line_number' = r.line_number
          /\ error' = r.outcome
    /\ pc' = "raised"
    /\ UNCHANGED <<buildUnchanged, yielded, db>>

\* The decoded object is no virksomhed: iter_virksomhed goes on.
Build_continue ==
    /\ pc = "build"
    /\ LET r == next(fid, line_number)
       IN /\ r.outcome.t = "ok"
          /\ iter_virksomhed_body(r.outcome.v) = Continue
          /\ fid' = r.fid
          /\ line_number' = r.line_number
          /\ yielded' = Append(yielded, r.outcome.v)
    /\ UNCHANGED <<buildUnchanged, pc, error, db>>

\* insert_one_company(virksomhed.data) stores the document.
Build_insert ==
    /\ pc = "build"
    /\ LET r == next(fid, line_number)
           v == iter_virksomhed_body(r.outcome.v)
       IN /\ r.outcome.t = "ok"
          /\ v.t = "ok"
          /\ insert_one(db, v.v).t = "ok"
          /\ fid' = r.fid
          /\ line_number' = r.line_number
          /\ yielded' = Append(yielded, r.outcome.v)
          /\ db' = insert_one(db, v.v).v
    /\ UNCHANGED <<buildUnchanged, pc, error>>

\* insert_one_company raises DuplicateKeyError: except ...: pass
Build_duplicate ==
    /\ pc = "build"
    /\ LET r == next(fid, line_number)
           v == iter_virksomhed_body(r.outcome.v)
       IN /\ r.outcome.t = "ok"
          /\ v.t = "ok"
          /\ insert_one(db, v.v) = DuplicateKeyError
          /\ fid' = r.fid
          /\ line_number' = r.line_number
          /\ yielded' = Append(yielded, r.outcome.v)
    /\ UNCHANGED <<buildUnchanged, pc, error, db>>

NextBuild == Build_next_raises \/ Build_continue \/ Build_insert \/ Build_duplicate

SpecBuild == InitBuild /\ [][NextBuild]_vars

\* The data of the virksomhed records read so far, in order.
RECURSIVE Streamed(_)
Streamed(objs) ==
    IF objs = <<>> THEN <<>>
    ELSE IF HasKey(Head(objs).d["_source"], "Vrvirksomhed")
         THEN <<Head(objs).d["_source"].d["Vrvirksomhed"]>> \o Streamed(Tail(objs))
         ELSE Streamed(Tail(objs))

\* The company identifier of a record, null when it has none.
CvrOf(doc) == IF "cvrNummer" \in DOMAIN doc.d THEN doc.d["cvrNummer"] ELSE Null

\* The stored document without the _id the store gave it.
WithoutId(doc) == Dict([k \in DOMAIN doc.d \ {"_id"} |-> doc.d[k]])

\* C28: the store holds at most one record per cvrNummer; for every record
\* streamed so far it holds the first streamed record with that identifier,
\* unchanged, so a duplicate neither replaces a record nor stops the pass.
C28_FirstInsertKept ==
    LET streamed == Streamed(yielded)
    IN /\ \A i, j \in 1..Len(db) : CvrOf(db[i]) = CvrOf(db[j]) => i = j
       /\ Len(db) = Cardinality({CvrOf(streamed[k]) : k \in 1..Len(streamed)})
       /\ \A k \in 1..Len(streamed) :
              \E i \in 1..Len(db), first \in 1..k :
                  /\ CvrOf(streamed[first]) = CvrOf(streamed[k])
                  /\ \A j \in 1..(first - 1) : CvrOf(streamed[j]) # CvrOf(streamed[k])
                  /\ WithoutId(db[i]) = streamed[first]

\* C28 witness: after the first record of company 1 a second one was
\* rejected and company 2 was still inserted.
C28_Witness ==
    /\ lines = <<LineVirksomhed1, LineVirksomhed1Again, LineVirksomhed2>>
    /\ Len(yielded) = 3
    /\ Len(db) = 2
    /\ WithoutId(db[1]) = LineVirksomhed1Obj.d["_source"].d["Vrvirksomhed"]
    /\ CvrOf(db[2]) = JInt(2)

-----------------------------------------------------------------------------
\* cvrmongofeatures.CvrMongoFeatures.count_all_company_field_names and
\* examples/count_company_fields.py: the field census over the companies
\* that CvrMongo.iter_companies yields.

\* counter[p], which is 0 for a path the counter does not hold.
CountOf(counter, p) == IF p \in DOMAIN counter THEN counter[p] ELSE 0

\* counts = b: the tally of the last record replaces the accumulator.
CounterAssign(a, b) == b

\* counts |= b: the larger of the two counts of each path.
CounterUnion(a, b) ==
    [p \in DOMAIN a \cup DOMAIN b |->
        IF CountOf(a, p) >= CountOf(b, p) THEN CountOf(a, p) ELSE CountOf(b, p)]

\* counts += b: the counts of each path are added and only positive counts
\* are kept.
CounterAdd(a, b) ==
    [p \in {q \in DOMAIN a \cup DOMAIN b : CountOf(a, q) + CountOf(b, q) > 0} |->
        CountOf(a, p) + CountOf(b, p)]

MaxCompanies == 3

\* The stored companies of the sample collection: the documented example, a
\* company with two names, one with a list of identifiers, one as Mongo
\* stores it (with an ObjectId), one with a floating-point leaf and an empty
\* one.
SampleCompanies ==
    {ExampleCensusRecord,
     Dict([cvrNummer |-> JInt(1),
           navne |-> List(<<Dict([navn |-> JStr(<<"a">>)]),
                            Dict([navn |-> JStr(<<"b">>)])>>)]),
     Dict([cvrNummer |-> List(<<JInt(1), JInt(2)>>)]),
     Dict(("_id" :> ObjectId) @@ [cvrNummer |-> JInt(1), reklamebeskyttet |-> JBool(FALSE)]),
     Dict([cvrNummer |-> JInt(1), kapital |-> JFloat("0.5")]),
     Dict(<<>>)}

Collections == SeqsUpTo(SampleCompanies, MaxCompanies)

\* counts = Counter(), before the first company is taken.
InitCensus ==
    /\ companies \in Collections
    /\ folded = 0
    /\ counts = <<>>
    /\ pc = "census"
    /\ error = NoError
    /\ stop_words = <<>>
    /\ purpose = <<>>
    /\ StoreIdle
    /\ lines = <<>>
    /\ fid = [open |-> FALSE, pos |-> 0]
    /\ line_number = 0
    /\ yielded = <<>>
    /\ header = Null
    /\ csvfile = <<>>
    /\ VirksomhedIdle

\* One turn of the loop: counts += Virksomhed(company).count_fields()
Census_fold ==
    /\ pc = "census"
    /\ folded < Len(companies)
    /\ LET fields == count_fields(companies[folded + 1])
       IN /\ fields.t = "ok"
          /\ counts' = CounterAdd(counts, fields.v.c)
    /\ folded' = folded + 1
    /\ UNCHANGED <<data, called, result, lines, fid, line_number, pc, yielded,
                   error, header, csvfile, companies, stop_words, purpose, storeVars>>

\* count_fields raises: the exception leaves the loop and the census.
Census_raises ==
    /\ pc = "census"
    /\ folded < Len(companies)
    /\ LET fields == count_fields(companies[folded + 1])
       IN /\ fields.t = "raise"
          /\ error' = fields
    /\ pc' = "raised"
    /\ UNCHANGED <<data, called, result, lines, fid, line_number, yielded,
                   header, csvfile, companies, folded, counts, stop_words, purpose, storeVars>>

\* The companies are exhausted: return counts
Census_return ==
    /\ pc = "census"
    /\ folded = Len(companies)
    /\ pc' = "returned"
    /\ called' = "count_all_company_field_names"
    /\ result' = Ok([t |-> "counter", c |-> counts])
    /\ UNCHANGED <<data, lines, fid, line_number, yielded, error, header, csvfile,
                   companies, folded, counts, stop_words, purpose, storeVars>>

NextCensus == Census_fold \/ Census_raises \/ Census_return

SpecCensus == InitCensus /\ [][NextCensus]_vars

\* The sum of f(1) .. f(n).
RECURSIVE SumTo(_, _)
SumTo(f, n) == IF n = 0 THEN 0 ELSE f[n] + SumTo(f, n - 1)

\* What count_fields gives path p for the k-th company.
RecordCount(k, p) == CountOf(count_fields(companies[k]).v.c, p)

EmittedPaths == UNION {DOMAIN count_fields(companies[k]).v.c : k \in 1..Len(companies)}

\* C18: the census returns, for every path, the sum over all records of the
\* count that count_fields gives the path for the record, and holds no path
\* that no record emitted.
C18_CensusIsSum ==
    pc = "returned" =>
        /\ result.t = "ok"
        /\ DOMAIN result.v.c = EmittedPaths
        /\ \A p \in EmittedPaths :
               result.v.c[p] =
                   SumTo([k \in 1..Len(companies) |-> RecordCount(k, p)], Len(companies))

\* C18 witness: a census over three companies returned cvrNummer three
\* times and navne.navn twice.
C18_Witness ==
    /\ pc = "returned"
    /\ Len(companies) = 3
    /\ result = Ok([t |-> "counter",
                    c |-> ("cvrNummer" :> 3) @@ ("navne.navn" :> 2)])

\* The sum of the counts over all paths.
RECURSIVE Total(_)
Total(counter) ==
    IF DOMAIN counter = {} THEN 0
    ELSE LET p == CHOOSE q \in DOMAIN counter : TRUE
         IN counter[p] + Total([q \in DOMAIN counter \ {p} |-> counter[q]])

\* C19: a fold never removes a path and never lowers the count of a path,
\* so the sum of the counts over all paths never decreases.
C19_NeverDecremented ==
    [][/\ \A p \in DOMAIN counts : p \in DOMAIN counts' /\ counts'[p] >= counts[p]
       /\ Total(counts') >= Total(counts)]_vars

\* C19 witness: two companies have been folded, the second raised the count
\* of cvrNummer from 1 to 3 and a third is still to come.
C19_Witness ==
    /\ pc = "census"
    /\ folded = 2
    /\ Len(companies) = 3
    /\ companies[1] = ExampleCensusRecord
    /\ counts = [cvrNummer |-> 3]

-----------------------------------------------------------------------------
\* text.PurposeProcessor: the cleaning of a purpose text.  Texts are
\* sequences of characters; the only whitespace in them is the blank.

\* The characters of a string, one by one.
Chars(s) == [i \in 1..Len(s) |-> SubSeq(s, i, i)]

Letters ==
    {"a", "b", "c", "d", "e", "f", "g", "h", "i", "j", "k", "l", "m", "n", "o",
     "p", "q", "r", "s", "t", "u", "v", "w", "x", "y", "z", "æ", "ø", "å",
     "A", "B", "C", "D", "E", "F", "G", "H", "I", "J", "K", "L", "M", "N", "O",
     "P", "Q", "R", "S", "T", "U", "V", "W", "X", "Y", "Z", "Æ", "Ø", "Å"}

\* \w under re.UNICODE: letters, digits and the underscore.
WordChars == Letters \cup Digits \cup {"_"}

\* The character at position i is a word character; there is none outside
\* the text.
word_at(text, i) == i \in 1..Len(text) /\ text[i] \in WordChars

\* \b between position i and position i + 1.
boundary(text, i) == word_at(text, i) # word_at(text, i + 1)

\* The word stands in the text from position i + 1 on.
stands_at(text, i, word) ==
    /\ i + Len(word) <= Len(text)
    /\ SubSeq(text, i + 1, i + Len(word)) = word

\* sorted(words, key=len, reverse=True): a stable sort, so words of one
\* length keep their order.
RECURSIVE insert_by_len(_, _)
insert_by_len(word, sorted) ==
    IF sorted = <<>> THEN <<word>>
    ELSE IF Len(Head(sorted)) < Len(word) THEN <<word>> \o sorted
    ELSE <<Head(sorted)>> \o insert_by_len(word, Tail(sorted))

\* The stop words in the order they were read.
unsorted(words) == words

RECURSIVE sorted_by_len_reverse(_)
sorted_by_len_reverse(words) ==
    IF words = <<>> THEN <<>>
    ELSE insert_by_len(words[Len(words)],
                       sorted_by_len_reverse(SubSeq(words, 1, Len(words) - 1)))

\* An alternation that is not followed by \b: a word matches wherever it
\* stands, also at the start of a longer word.
RECURSIVE alternation_match_prefix(_, _, _)
alternation_match_prefix(text, i, words) ==
    IF words = <<>> THEN 0
    ELSE IF Head(words) # <<>> /\ stands_at(text, i, Head(words))
         THEN Len(Head(words))
         ELSE alternation_match_prefix(text, i, Tail(words))

\* The alternation (?:w1|w2|...) followed by \b, tried at position i + 1:
\* the length of the first alternative that matches there, 0 when none does.
RECURSIVE alternation_match(_, _, _)
alternation_match(text, i, words) ==
    IF words = <<>> THEN 0
    ELSE IF /\ Head(words) # <<>>
            /\ stands_at(text, i, Head(words))
            /\ boundary(text, i + Len(Head(words)))
         THEN Len(Head(words))
         ELSE alternation_match(text, i, Tail(words))

\* stop_words_pattern.sub('', text) from position i + 1 on: the leftmost
\* match is removed and the search goes on behind it.
RECURSIVE stop_words_sub(_, _, _)
stop_words_sub(words, text, i) ==
    IF i >= Len(text) THEN <<>>
    ELSE LET n == IF boundary(text, i) THEN alternation_match(text, i, words) ELSE 0
         IN IF n > 0 THEN stop_words_sub(words, text, i + n)
            ELSE <<text[i + 1]>> \o stop_words_sub(words, text, i + 1)

\* A clean that leaves the whitespace around the text in place.
clean_unstripped(words, text) ==
    stop_words_sub(sorted_by_len_reverse(words), text, 0)

\* clean(text), for the processor set up with the given stop words.
clean(words, text) ==
    py_strip(stop_words_sub(sorted_by_len_reverse(words), text, 0))

\* The alternatives of ignore_pattern, in order; \s is the blank here.
IgnorePhrases ==
    <<Chars("Selskabets formål er at drive"),
      Chars("Selskabets formål er"),
      Chars("og dermed beslægtet virksomhed")>>

\* The length of the match of ignore_pattern at position i + 1: the first
\* phrase that stands there, or the full stop at the end of the text.
RECURSIVE ignore_match(_, _, _)
ignore_match(text, i, phrases) ==
    IF phrases = <<>>
    THEN IF i + 1 = Len(text) /\ text[i + 1] = "." THEN 1 ELSE 0
    ELSE IF stands_at(text, i, Head(phrases)) THEN Len(Head(phrases))
    ELSE ignore_match(text, i, Tail(phrases))

\* ignore_pattern.sub('', text) from position i + 1 on.
RECURSIVE ignore_pattern_sub(_, _)
ignore_pattern_sub(text, i) ==
    IF i >= Len(text) THEN <<>>
    ELSE LET n == ignore_match(text, i, IgnorePhrases)
         IN IF n > 0 THEN ignore_pattern_sub(text, i + n)
            ELSE <<text[i + 1]>> \o ignore_pattern_sub(text, i + 1)

\* The stop words read from data/purpose_stop_words.txt, one per line: the
\* lists tried here all hold "dermed"; one holds the words of the example
\* "Selskabets formål er handel", one a word that begins another, one a
\* word that begins a stop phrase of two words.
StopWordLists ==
    {<<Chars("dermed")>>,
     <<Chars("Selskabets"), Chars("formål"), Chars("er"), Chars("dermed")>>,
     <<Chars("er"), Chars("dermed"), Chars("erhverv")>>,
     <<Chars("er"), Chars("dermed"), Chars("er handel")>>}

MaxTokens == 3

Tokens ==
    {Chars("er"), Chars("Er"), Chars("handel"), Chars("dermed"), Chars("erhverv"),
     <<" ">>, <<".">>}

\* The tokens of a sequence, joined.
RECURSIVE Join(_)
Join(tokens) == IF tokens = <<>> THEN <<>> ELSE Head(tokens) \o Join(Tail(tokens))

ExamplePurposes ==
    {Chars("Selskabets formål er handel"),
     Chars("Selskabets formål er at drive handel og dermed beslægtet virksomhed."),
     Chars("handel og dermed beslægtet virksomhed")}

Purposes == {Join(tokens) : tokens \in SeqsUpTo(Tokens, MaxTokens)} \cup ExamplePurposes

\* PurposeProcessor(): the stop words are read; no text is cleaned yet.
InitText ==
    /\ stop_words \in StopWordLists
    /\ purpose \in Purposes
    /\ pc = "text"
    /\ companies = <<>>
    /\ folded = 0
    /\ counts = <<>>
    /\ StoreIdle
    /\ error = NoError
    /\ lines = <<>>
    /\ fid = [open |-> FALSE, pos |-> 0]
    /\ line_number = 0
    /\ yielded = <<>>
    /\ header = Null
    /\ csvfile = <<>>
    /\ VirksomhedIdle

\* purpose_processor.clean(purpose)
Text_clean ==
    /\ pc = "text"
    /\ called = "none"
    /\ called' = "clean"
    /\ result' = Ok(JStr(clean(stop_words, purpose)))
    /\ UNCHANGED <<otherVars, data, lines, fid, line_number, pc, yielded, error,
                   header, csvfile>>

\* purpose_processor.clean(cleaned): the cleaned text is cleaned again.
Text_clean_again ==
    /\ pc = "text"
    /\ called = "clean"
    /\ called' = "clean_again"
    /\ result' = Ok(JStr(clean(stop_words, result.v.s)))
    /\ UNCHANGED <<otherVars, data, lines, fid, line_number, pc, yielded, error,
                   header, csvfile>>

NextText == Text_clean \/ Text_clean_again

SpecText == InitText /\ [][NextText]_vars

\* C20: clean strips the boilerplate phrases wherever they occur and a full
\* stop at the end of the text, then removes the stop words and trims.
C20_BoilerplateStripped ==
    called = "clean" =>
        result = Ok(JStr(clean(stop_words, ignore_pattern_sub(purpose, 0))))

\* A word character stands at position k of the text.
IsWord(text, k) == k \in 1..Len(text) /\ text[k] \in WordChars

\* The text has a word edge between positions i and i + 1.
Edge(text, i) == IsWord(text, i) # IsWord(text, i + 1)

\* The stop word w occurs in the text as a whole word behind position i.
WholeWordAt(text, i, w) ==
    /\ i + Len(w) <= Len(text)
    /\ SubSeq(text, i + 1, i + Len(w)) = w
    /\ Edge(text, i)
    /\ Edge(text, i + Len(w))

\* The positions of the text that lie in a whole-word occurrence of a word.
Covered(text, words) ==
    {k \in 1..Len(text) :
        \E i \in 0..Len(text), j \in 1..Len(words) :
            WholeWordAt(text, i, words[j]) /\ i < k /\ k <= i + Len(words[j])}

\* The characters of the text from position k on whose positions are kept.
RECURSIVE Remaining(_, _, _)
Remaining(text, k, covered) ==
    IF k > Len(text) THEN <<>>
    ELSE IF k \in covered THEN Remaining(text, k + 1, covered)
    ELSE <<text[k]>> \o Remaining(text, k + 1, covered)

\* The text from its first to its last character that is not a blank.
Trim(text) ==
    LET inked == {k \in 1..Len(text) : text[k] # " "}
    IN IF inked = {} THEN <<>>
       ELSE SubSeq(text, CHOOSE a \in inked : \A k \in inked : a <= k,
                         CHOOSE b \in inked : \A k \in inked : b >= k)

\* C21: clean removes every whole-word occurrence of every stop word, as
\* written, and nothing else but the whitespace around the text: a stop word
\* inside a longer word survives; "Selskabets formål er handel" gives
\* "handel".
C21_WholeWordsRemoved ==
    called = "clean" =>
        /\ result = Ok(JStr(Trim(Remaining(purpose, 1, Covered(purpose, stop_words)))))
        /\ (purpose = Chars("Selskabets formål er handel")
            /\ \A w \in {Chars("Selskabets"), Chars("formål"), Chars("er")} :
                   \E j \in 1..Len(stop_words) : stop_words[j] = w)
           => result = Ok(JStr(Chars("handel")))

\* C21 witness: the documented example.
C21_Witness ==
    /\ called = "clean"
    /\ purpose = Chars("Selskabets formål er handel")
    /\ stop_words = <<Chars("Selskabets"), Chars("formål"), Chars("er"), Chars("dermed")>>
    /\ result = Ok(JStr(Chars("handel")))

\* C21 witness for the longer word: "er" is a stop word, "erhverv"
\* is not, and the text "erhverv er" kept "erhverv".
C21_WitnessSubstring ==
    /\ called = "clean"
    /\ purpose = Chars("erhverv er")
    /\ stop_words = <<Chars("Selskabets"), Chars("formål"), Chars("er"), Chars("dermed")>>
    /\ result = Ok(JStr(Chars("erhverv")))

\* The text holds one of the boilerplate phrases.
HasBoilerplate(text) ==
    \E i \in 0..Len(text), j \in 1..Len(IgnorePhrases) :
        /\ i + Len(IgnorePhrases[j]) <= Len(text)
        /\ SubSeq(text, i + 1, i + Len(IgnorePhrases[j])) = IgnorePhrases[j]

\* C22: for a text without a boilerplate phrase, cleaning the cleaned text
\* gives the cleaned text again: it holds no whole-word stop word and no
\* whitespace at its ends.
C22_Idempotent ==
    (called = "clean_again" /\ ~HasBoilerplate(purpose)) =>
        /\ result = Ok(JStr(clean(stop_words, purpose)))
        /\ Covered(result.v.s, stop_words) = {}
        /\ result.v.s = Trim(result.v.s)

\* C22 witness: "er handel" was cleaned to "handel" and cleaning that gave
\* "handel" again.
C22_Witness ==
    /\ called = "clean_again"
    /\ purpose = Chars("er handel")
    /\ stop_words = <<Chars("er"), Chars("dermed"), Chars("erhverv")>>
    /\ result = Ok(JStr(Chars("handel")))

\* The length of the longest stop word that occurs as a whole word behind
\* position i, 0 when none does.
LongestAt(text, i, words) ==
    LET lengths == {Len(words[j]) : j \in {j \in 1..Len(words) :
                                              WholeWordAt(text, i, words[j])}}
    IN IF lengths = {} THEN 0 ELSE CHOOSE n \in lengths : \A m \in lengths : n >= m

\* The text from position i + 1 on, with the longest whole-word stop word
\* taken out wherever one begins.
RECURSIVE RemoveLongest(_, _, _)
RemoveLongest(text, i, words) ==
    IF i >= Len(text) THEN <<>>
    ELSE IF LongestAt(text, i, words) > 0
         THEN RemoveLongest(text, i + LongestAt(text, i, words), words)
         ELSE <<text[i + 1]>> \o RemoveLongest(text, i + 1, words)

\* The stop word short begins the longer stop word long.
BeginsWith(long, short) ==
    Len(short) < Len(long) /\ SubSeq(long, 1, Len(short)) = short

\* Both a stop word and a longer stop word that begins with it occur as
\* whole words behind position i.
BothMatchAt(text, i, words) ==
    \E j, k \in 1..Len(words) :
        /\ BeginsWith(words[k], words[j])
        /\ WholeWordAt(text, i, words[j])
        /\ WholeWordAt(text, i, words[k])

\* C26: the pattern holds the stop words longest first, and where a stop
\* word and a longer stop word beginning with it both match as whole words,
\* the longer one is removed.
C26_LongestFirst ==
    called = "clean" =>
        /\ LET pattern == sorted_by_len_reverse(stop_words)
           IN /\ Len(pattern) = Len(stop_words)
              /\ \A j \in 1..(Len(pattern) - 1) : Len(pattern[j]) >= Len(pattern[j + 1])
              /\ \A j \in 1..Len(stop_words) :
                     \E k \in 1..Len(pattern) : pattern[k] = stop_words[j]
        /\ result = Ok(JStr(Trim(RemoveLongest(purpose, 0, stop_words))))

\* C26 witness: "er" and "er handel" are stop words, read in that order, and
\* the text "er handel" was cleaned to the empty text.
C26_Witness ==
    /\ called = "clean"
    /\ purpose = Chars("er handel")
    /\ stop_words = <<Chars("er"), Chars("dermed"), Chars("er handel")>>
    /\ BothMatchAt(purpose, 0, stop_words)
    /\ result = Ok(JStr(<<>>))

-----------------------------------------------------------------------------
\* google.GooglePlaceArchive and GooglePlaceApiAndArchive.search_and_save.
\* A line of the archive file is represented by the JSON document it holds.

MaxArchive == 2
MaxAppends == 2
MaxCandidates == 2

PlaceIds == {JStr(<<"A">>), JStr(<<"B">>)}

\* The response of the Place Details service for a place, and a response
\* without a result (a status other than OK).
PlaceDetails(place_id) ==
    Dict([status |-> JStr(<<"O", "K">>), result |-> Dict([place_id |-> place_id])])

ErrorResponse == Dict([status |-> JStr(<<"I", "N", "V", "A", "L", "I", "D">>)])

\* What the archive file may hold when the archive object is made; no file
\* is an archive without lines.
ArchiveFiles == SeqsUpTo({PlaceDetails(p) : p \in PlaceIds}, MaxArchive)

\* make_index from line n + 1 on: the index and last_line at the end of the
\* loop, or the exception a line without result.place_id raises.
RECURSIVE make_index(_, _, _, _)
make_index(file, n, index, last) ==
    IF n >= Len(file) THEN Ok([place_id_index |-> index, last_line |-> last])
    ELSE LET place_id == Path(file[n + 1], <<"result", "place_id">>)
         IN IF place_id.t = "raise" THEN place_id
            ELSE make_index(file, n + 1, (place_id.v :> n) @@ index, n)

\* An append that leaves the index entry of a place that has one.
append_keep_first(file, index, last, details) ==
    LET place_id == Path(details, <<"result", "place_id">>)
    IN IF place_id.t = "raise" THEN place_id
       ELSE Ok([archive |-> Append(file, details),
                last_line |-> last + 1,
                place_id_index |-> index @@ (place_id.v :> (last + 1))])

\* append(data): the file, last_line and the index afterwards, or the
\* exception raised before anything is written.
append(file, index, last, details) ==
    LET place_id == Path(details, <<"result", "place_id">>)
    IN IF place_id.t = "raise" THEN place_id
       ELSE Ok([archive |-> Append(file, details),
                last_line |-> last + 1,
                place_id_index |-> (place_id.v :> (last + 1)) @@ index])

has_place_id(place_id) == place_id \in DOMAIN place_id_index

\* search_places(query): the place_ids of the candidates, any list.
SearchResults == SeqsUpTo(PlaceIds, MaxCandidates)

\* get_place_details(place_ids) is handed the whole list: the request
\* carries every candidate as a placeid parameter, and the service answers
\* with the details of one of them or without a result.
get_place_details(candidates) ==
    {PlaceDetails(candidates[i]) : i \in 1..Len(candidates)} \cup {ErrorResponse}

\* GooglePlaceArchive(): index and last_line are set before make_index.
InitGoogle ==
    /\ archive \in ArchiveFiles
    /\ place_id_index = <<>>
    /\ last_line = -1
    /\ place_ids = <<>>
    /\ db = <<>>
    /\ pc = "make_index"
    /\ companies = <<>>
    /\ folded = 0
    /\ counts = <<>>
    /\ stop_words = <<>>
    /\ purpose = <<>>
    /\ lines = <<>>
    /\ fid = [open |-> FALSE, pos |-> 0]
    /\ line_number = 0
    /\ yielded = <<>>
    /\ error = NoError
    /\ header = Null
    /\ csvfile = <<>>
    /\ VirksomhedIdle

googleUnchanged ==
    <<data, result, lines, fid, line_number, yielded, header, csvfile, companies,
      folded, counts, stop_words, purpose, db>>

\* __init__: self.make_index(), then the file is opened for appending.
Archive_make_index ==
    /\ pc = "make_index"
    /\ LET made == make_index(archive, 0, place_id_index, last_line)
       IN /\ made.t = "ok"
          /\ place_id_index' = made.v.place_id_index
          /\ last_line' = made.v.last_line
    /\ pc' = "ready"
    /\ UNCHANGED <<googleUnchanged, called, error, archive, place_ids>>

\* archive.append(data), called with a response that has a result.
Archive_append ==
    /\ pc = "ready"
    /\ Len(archive) < MaxArchive + MaxAppends
    /\ \E p \in PlaceIds :
          LET appended == append(archive, place_id_index, last_line, PlaceDetails(p))
          IN /\ archive' = appended.v.archive
             /\ last_line' = appended.v.last_line
             /\ place_id_index' = appended.v.place_id_index
    /\ called' = "append"
    /\ UNCHANGED <<googleUnchanged, pc, error, place_ids>>

\* search_and_save(query): no candidate, or the first one is archived.
Search_no_save ==
    /\ pc = "ready"
    /\ \E candidates \in SearchResults :
          /\ ~(Len(candidates) > 0 /\ ~has_place_id(candidates[1]))
          /\ place_ids' = candidates
    /\ called' = "search_and_save"
    /\ UNCHANGED <<googleUnchanged, pc, error, archive, place_id_index, last_line>>

\* search_and_save(query): the first candidate is not archived, the details
\* are fetched and appended.
Search_save ==
    /\ pc = "ready"
    /\ Len(archive) < MaxArchive + MaxAppends
    /\ \E candidates \in SearchResults :
          /\ Len(candidates) > 0
          /\ ~has_place_id(candidates[1])
          /\ place_ids' = candidates
          /\ \E place_details \in get_place_details(candidates) :
                LET appended == append(archive, place_id_index, last_line, place_details)
                IN /\ appended.t = "ok"
                   /\ archive' = appended.v.archive
                   /\ last_line' = appended.v.last_line
                   /\ place_id_index' = appended.v.place_id_index
    /\ called' = "search_and_save"
    /\ UNCHANGED <<googleUnchanged, pc, error>>

\* search_and_save(query): the response has no result and append raises.
Search_save_raises ==
    /\ pc = "ready"
    /\ \E candidates \in SearchResults :
          /\ Len(candidates) > 0
          /\ ~has_place_id(candidates[1])
          /\ place_ids' = candidates
          /\ \E place_details \in get_place_details(candidates) :
                LET appended == append(archive, place_id_index, last_line, place_details)
                IN /\ appended.t = "raise"
                   /\ error' = appended
    /\ called' = "search_and_save"
    /\ pc' = "raised"
    /\ UNCHANGED <<googleUnchanged, archive, place_id_index, last_line>>

NextGoogle ==
    \/ Archive_make_index
    \/ Archive_append
    \/ Search_no_save
    \/ Search_save
    \/ Search_save_raises

SpecGoogle == InitGoogle /\ [][NextGoogle]_vars

\* The place of a line of the archive, and the 0-based numbers of the lines
\* that hold a place.
PlaceOf(line) == line.d["result"].d["place_id"]

LinesOf(file, p) == {n \in 0..(Len(file) - 1) : PlaceOf(file[n + 1]) = p}

\* C29: once the index is made, and after every append, last_line is the
\* number of lines minus one, each indexed place has the number of the last
\* line that holds it, and has_place_id is true of the places on some line.
C29_IndexInvariant ==
    pc = "ready" =>
        /\ last_line = Len(archive) - 1
        /\ \A p \in DOMAIN place_id_index :
               /\ LinesOf(archive, p) # {}
               /\ \A n \in LinesOf(archive, p) : place_id_index[p] >= n
               /\ place_id_index[p] \in LinesOf(archive, p)
        /\ \A p \in PlaceIds : has_place_id(p) <=> LinesOf(archive, p) # {}

\* C29 witness: place A was on line 0 of the file and was appended again as
\* line 2; the index holds 2 for it.
C29_Witness ==
    /\ pc = "ready"
    /\ called = "append"
    /\ Len(archive) = 3
    /\ LinesOf(archive, JStr(<<"A">>)) = {0, 2}
    /\ place_id_index[JStr(<<"A">>)] = 2
    /\ last_line = 2

\* No place is on two lines of the archive.
NoPlaceTwice(file) == \A p \in PlaceIds : Cardinality(LinesOf(file, p)) <= 1

\* C30: a search_and_save appends at most one record, none when there is no
\* candidate or the first candidate is archived, and never puts a place on
\* a second line of the archive.
C30_NeverArchivedTwice ==
    [][called' = "search_and_save" =>
          /\ Len(archive') <= Len(archive) + 1
          /\ (place_ids' = <<>> \/ LinesOf(archive, place_ids'[1]) # {})
                 => archive' = archive
          /\ NoPlaceTwice(archive) => NoPlaceTwice(archive')]_vars

====
